---------------------------- MODULE Spec2Model ----------------------------
(***************************************************************************)
(* A model of the DBC compare tool (dbc_compare.py): the tolerant parser   *)
(* of CAN database documents (parse_dbc) and the structural differ         *)
(* (compare_dbc_files, categorize_changes), driven as main() drives them:  *)
(* parse the old file, parse the new file, build the aligned rows, build   *)
(* the six classified lists.                                               *)
(*                                                                         *)
(* A document is a sequence of lines.  A line is the record of the groups  *)
(* that the regular expression of its shape captures (k names the shape;   *)
(* "JUNK" is a line no expression matches).  Captured numbers are kept as  *)
(* the text the expression captured and converted by py_int / py_float as  *)
(* int() / float() convert them.                                           *)
(*                                                                         *)
(* The window of the GUI (dbc_compare_gui.py, DBCCompareApp) is modelled    *)
(* beside it: the Compare button, the comparison threads it starts and the *)
(* callbacks they hand to the event loop.                                  *)
(*                                                                         *)
(* Python values that meet in a row cell are tagged records (ty = "int",   *)
(* "float", "str", "None"); an operation that raises yields Raise.         *)
(***************************************************************************)
EXTENDS Integers, Sequences, FiniteSets, TLC

VARIABLES
    old_path,          \* the file at old_path, as parse_dbc found it
    new_path,          \* the file at new_path, as parse_dbc found it
    old_db,            \* result of parse_dbc(old_path)
    new_db,            \* result of parse_dbc(new_path)
    comparison_rows,   \* result of compare_dbc_files(old_db, new_db)
    cats,              \* result of categorize_changes(old_db, new_db)
    pc,                \* position of main() in the body of its loop
    compare_btn,       \* DBCCompareApp: state of the Compare button
    open_btn,          \* DBCCompareApp: state of the Open Output Folder button
    is_running,        \* DBCCompareApp.is_running
    threads,           \* the comparison threads started so far, each with its position
    after_queue        \* callbacks given to root.after(0, ...) and not yet run

\* the state of the DBCCompareApp window
app == <<compare_btn, open_btn, is_running, threads, after_queue>>

\* the locals of main()
bus == <<old_path, new_path, old_db, new_db, comparison_rows, cats, pc>>

vars == <<bus, app>>

-----------------------------------------------------------------------------
(* Python values                                                           *)

None == [ty |-> "None"]
Raise == [ty |-> "raise"]
\* a list that an operation which can raise returned
Ok(v) == [ty |-> "ok", v |-> v]
IntV(n) == [ty |-> "int", i |-> n]
StrV(s) == [ty |-> "str", s |-> s]
FloatV(f) == [ty |-> "float", f |-> f]

\* A float: finite (h is twice its value), nan or inf.
Fin(h) == [cls |-> "fin", h |-> h]
NaN == [cls |-> "nan", h |-> 0]
Inf == [cls |-> "inf", h |-> 0]

\* x if x else None, for a string x
StrOrNone(s) == IF s = "" THEN None ELSE StrV(s)

\* Python's a == b on two values
PyEq(a, b) ==
    CASE a.ty = "None" \/ b.ty = "None" -> a.ty = b.ty
      [] a.ty = "str" \/ b.ty = "str" -> a.ty = b.ty /\ a.s = b.s
      [] a.ty = "int" /\ b.ty = "int" -> a.i = b.i
      [] a.ty = "int" /\ b.ty = "float" -> b.f.cls = "fin" /\ b.f.h = 2 * a.i
      [] a.ty = "float" /\ b.ty = "int" -> a.f.cls = "fin" /\ a.f.h = 2 * b.i
      [] OTHER -> \/ a.f.cls = "fin" /\ b.f.cls = "fin" /\ a.f.h = b.f.h
                  \/ a.f.cls = "inf" /\ b.f.cls = "inf"

\* int(text) for a text the expression \d+ or -?\d+ captured
py_int(tok) ==
    CASE tok = "0" -> 0
      [] tok = "1" -> 1
      [] tok = "2" -> 2
      [] tok = "3" -> 3
      [] tok = "4" -> 4
      [] tok = "5" -> 5
      [] tok = "8" -> 8
      [] tok = "9" -> 9
      [] tok = "10" -> 10
      [] tok = "010" -> 10
      [] tok = "14" -> 14
      [] tok = "16" -> 16
      [] tok = "20" -> 20
      [] tok = "100" -> 100
      [] tok = "256" -> 256
      [] tok = "-1" -> 0 - 1

\* float(text): the value, or Raise (ValueError) for a text that is no number
py_float(tok) ==
    CASE tok = "0" -> Fin(0)
      [] tok = "0.0" -> Fin(0)
      [] tok = "0.5" -> Fin(1)
      [] tok = "1" -> Fin(2)
      [] tok = "1.0" -> Fin(2)
      [] tok = "2.5" -> Fin(5)
      [] tok = "5" -> Fin(10)
      [] tok = "5.0" -> Fin(10)
      [] tok = "5.5" -> Fin(11)
      [] tok = "100" -> Fin(200)
      [] tok = "nan" -> NaN
      [] tok = "inf" -> Inf
      [] OTHER -> Raise

\* int(val) for a float val: truncation, ValueError on nan, OverflowError on inf
float_to_int(f) == IF f.cls = "fin" THEN IntV(f.h \div 2) ELSE Raise

-----------------------------------------------------------------------------
(* Sequences as Python lists and insertion-ordered dicts                   *)

RECURSIVE SeqFilter(_, _)
\* the elements of s, in order, whose index is in keep
SeqFilter(s, keep) ==
    IF s = <<>> THEN <<>>
    ELSE LET n == Len(s)
             front == SeqFilter(SubSeq(s, 1, n - 1), keep)
         IN  IF n \in keep THEN Append(front, s[n]) ELSE front

RECURSIVE Join(_, _)
\* sep.join(parts)
Join(sep, parts) ==
    IF parts = <<>> THEN ""
    ELSE IF Len(parts) = 1 THEN parts[1]
    ELSE Join(sep, SubSeq(parts, 1, Len(parts) - 1)) \o sep \o parts[Len(parts)]

\* A dict assignment that always adds an entry.
DictSet_appending(d, keyof, key, val) == Append(d, val)

\* A dict assignment that moves an existing key to the end.
DictSet_moving_to_end(d, keyof, key, val) ==
    Append(SeqFilter(d, {i \in DOMAIN d : d[i][keyof] # key}), val)

\* d[key] = val on an insertion-ordered dict kept as the sequence of its values,
\* keyof naming the key field: an existing key keeps its position.
DictSet(d, keyof, key, val) ==
    IF \E i \in DOMAIN d : d[i][keyof] = key
    THEN [i \in DOMAIN d |-> IF d[i][keyof] = key THEN val ELSE d[i]]
    ELSE Append(d, val)

\* list(d.keys())
Keys(d, keyof) == [i \in DOMAIN d |-> d[i][keyof]]

HasKey(d, keyof, key) == \E i \in DOMAIN d : d[i][keyof] = key

\* d.get(key), for a key that d holds
Get(d, keyof, key) == d[CHOOSE i \in DOMAIN d : d[i][keyof] = key]

-----------------------------------------------------------------------------
(* Column layout and enum tables                                           *)

MSG_HEADERS ==
    <<"Id", "Name", "SendType", "CycleTime", "CycleTimeFast", "CycleTimeActive",
      "NrOfRepetition", "DelayTime", "StartDelayTime", "Dlc", "VFrameFormat",
      "CANFD_BRS", "Transmitter", "ILSupport", "NmMessage", "DiagRequest",
      "DiagResponse", "DiagState", "MsgComment">>

SIG_HEADERS ==
    <<"Name", "Start", "Length", "Endian", "Signed", "Scale", "Offset", "Min",
      "Max", "Unit", "InvalidValue", "StartValue", "InactiveValue", "SendType",
      "TimeoutTime", "ValueDesc", "Comment", "Receivers">>

NUM_MSG_COLS == Len(MSG_HEADERS)
NUM_SIG_COLS == Len(SIG_HEADERS)
NUM_COLS_PER_SIDE == NUM_MSG_COLS + NUM_SIG_COLS

MSG_SEND_TYPE_ENUM ==
    <<"Cyclic", "NoMsgSendType", "NotUsed", "NotUsed", "NotUsed",
      "NotUsed", "NotUsed", "IfActive", "NoMsgSendType", "NotUsed">>
SIG_SEND_TYPE_ENUM ==
    <<"Cyclic", "NoSigSendType", "OnWriteWithRepetition", "OnChange",
      "OnChangeWithRepetition", "IfActive", "IfActiveWithRepetition",
      "NoSigSendType">>
VFRAME_FORMAT_ENUM ==
    <<"StandardCAN", "ExtendedCAN", "reserved", "J1939PG",
      "reserved", "reserved", "reserved", "reserved",
      "reserved", "reserved", "reserved", "reserved",
      "reserved", "reserved", "StandardCAN_FD", "ExtendedCAN_FD">>
CANFD_BRS_ENUM == <<"0", "1">>
DIAG_ENUM == <<"No", "Yes">>
IL_ENUM == <<"No", "Yes">>
NM_ENUM == <<"No", "Yes">>

\* A lookup without the lower bound test: a negative index counts from the
\* end of the list, as enum_list[idx] does.
enum_lookup_wrapping(enum_list, index, default) ==
    IF 0 <= index /\ index < Len(enum_list) THEN enum_list[index + 1]
    ELSE IF index < 0 /\ 0 - index <= Len(enum_list)
    THEN enum_list[Len(enum_list) + index + 1]
    ELSE default

\* enum_list[index] for an index in range, default otherwise (index is an int:
\* int(index) cannot raise); Python lists count from 0.
enum_lookup(enum_list, index, default) ==
    IF 0 <= index /\ index < Len(enum_list) THEN enum_list[index + 1] ELSE default

-----------------------------------------------------------------------------
(* The entities                                                            *)

\* A Signal whose start value is 1 until a record sets it.
Signal_start_one ==
    [name |-> "", start_bit |-> 0, length |-> 0, byte_order |-> 0,
     value_type |-> "+", factor |-> Fin(2), offset |-> Fin(0),
     minimum |-> Fin(0), maximum |-> Fin(0), unit |-> "", receivers |-> <<>>,
     comment |-> "", value_desc |-> "", invalid_value |-> "",
     start_value |-> 1, inactive_value |-> 0, send_type |-> 0,
     timeout_time |-> 0, long_symbol |-> ""]

\* Signal.__init__
Signal ==
    [name |-> "", start_bit |-> 0, length |-> 0, byte_order |-> 0,
     value_type |-> "+", factor |-> Fin(2), offset |-> Fin(0),
     minimum |-> Fin(0), maximum |-> Fin(0), unit |-> "", receivers |-> <<>>,
     comment |-> "", value_desc |-> "", invalid_value |-> "",
     start_value |-> 0, inactive_value |-> 0, send_type |-> 0,
     timeout_time |-> 0, long_symbol |-> ""]

\* A Message whose GenMsgILSupport default is "No".
Message_il_off ==
    [msg_id |-> 0, name |-> "", dlc |-> 0, transmitter |-> "", signals |-> <<>>,
     comment |-> "", cycle_time |-> 0, cycle_time_fast |-> 0,
     cycle_time_active |-> 0, send_type |-> 0, nr_of_repetition |-> 0,
     delay_time |-> 0, start_delay_time |-> 0, il_support |-> 0,
     nm_message |-> 0, nm_asr_message |-> 0, vframe_format |-> 14,
     canfd_brs |-> 1, diag_request |-> 0, diag_response |-> 0,
     diag_state |-> 0, long_symbol |-> ""]

\* Message.__init__
Message ==
    [msg_id |-> 0, name |-> "", dlc |-> 0, transmitter |-> "", signals |-> <<>>,
     comment |-> "", cycle_time |-> 0, cycle_time_fast |-> 0,
     cycle_time_active |-> 0, send_type |-> 0, nr_of_repetition |-> 0,
     delay_time |-> 0, start_delay_time |-> 0, il_support |-> 1,
     nm_message |-> 0, nm_asr_message |-> 0, vframe_format |-> 14,
     canfd_brs |-> 1, diag_request |-> 0, diag_response |-> 0,
     diag_state |-> 0, long_symbol |-> ""]

\* DBCDatabase.__init__
DBCDatabase ==
    [messages |-> <<>>, nodes |-> <<>>, bus_type |-> "", db_name |-> "",
     baudrate |-> 500000, baudrate_canfd |-> 2000000]

endian_str(sig) == IF sig.byte_order = 0 THEN "big" ELSE "little"
signed_str(sig) == IF sig.value_type = "-" THEN "signed" ELSE "unsigned"
natural_start_bit(sig) == sig.start_bit

\* Signal.display_name and Message.display_name
display_name(e) ==
    IF e.long_symbol # "" /\ e.long_symbol # e.name THEN e.long_symbol ELSE e.name

-----------------------------------------------------------------------------
(* parse_dbc                                                               *)

\* The lines of content that the expression of shape k matches, as their indices.
Matches(content, k) == {i \in DOMAIN content : content[i].k = k}

\* A signal line (a match of sig_pattern) as a Signal; Raise when float() raises
\* on its scale, offset, minimum or maximum.
parse_signal(sm) ==
    LET factor == py_float(sm.scale)
        offset == py_float(sm.offset)
        minimum == py_float(sm.min)
        maximum == py_float(sm.max)
    IN  IF Raise \in {factor, offset, minimum, maximum} THEN Raise
        ELSE [Signal EXCEPT
                 !.name = sm.name,
                 !.start_bit = py_int(sm.start),
                 !.length = py_int(sm.len),
                 !.byte_order = py_int(sm.order),
                 !.value_type = sm.sign,
                 !.factor = factor,
                 !.offset = offset,
                 !.minimum = minimum,
                 !.maximum = maximum,
                 !.unit = sm.unit,
                 !.receivers = SeqFilter(sm.recv, {j \in DOMAIN sm.recv : sm.recv[j] # ""})]

\* The text of a line after its leading blanks, as the pieces split(',')
\* gives.  The receiver list of a signal line is kept as its pieces already.
line_pieces(line) ==
    CASE line.k = "SG" ->
             << "SG_ " \o line.name \o " : " \o line.start \o "|" \o line.len \o "@"
                    \o line.order \o line.sign \o " (" \o line.scale,
                line.offset \o ") [" \o line.min \o "|" \o line.max \o "] \""
                    \o line.unit \o "\""
                    \o (IF line.recv = <<>> THEN "" ELSE " " \o line.recv[1]) >>
             \o (IF line.recv = <<>> THEN <<>> ELSE Tail(line.recv))
      [] line.k = "BA_BO" ->
             << "BA_ \"" \o line.attr \o "\" BO_ " \o line.id \o " " \o line.val \o ";" >>
      [] line.k = "BA_BO_STR" ->
             << "BA_ \"" \o line.attr \o "\" BO_ " \o line.id \o " \"" \o line.val \o "\";" >>
      [] line.k = "BA_SG" ->
             << "BA_ \"" \o line.attr \o "\" SG_ " \o line.id \o " " \o line.sig \o " "
                    \o line.val \o ";" >>
      [] line.k = "BA_SG_STR" ->
             << "BA_ \"" \o line.attr \o "\" SG_ " \o line.id \o " " \o line.sig \o " \""
                    \o line.val \o "\";" >>
      [] line.k = "VAL" ->
             << "VAL_ " \o line.id \o " " \o line.sig \o " "
                    \o Join(" ", [p \in DOMAIN line.pairs |->
                                     line.pairs[p].num \o " \"" \o line.pairs[p].label \o "\""])
                    \o ";" >>
      [] line.k = "CM_SG" ->
             << "CM_ SG_ " \o line.id \o " " \o line.sig \o " \"" \o line.text \o "\";" >>
      [] line.k = "CM_BO" ->
             << "CM_ BO_ " \o line.id \o " \"" \o line.text \o "\";" >>
      [] line.k = "BA_GLOBAL" ->
             << "BA_ \"" \o line.attr \o "\" \"" \o line.val \o "\";" >>
      [] OTHER -> << "garbage" >>

RECURSIVE inside_match(_, _)
\* Line n of the block lies inside the sig_pattern match of the line before
\* it: the \s* before the last group runs over the line end when the receiver
\* text of that line is blank, and (.*) then takes line n.
inside_match(msg_block, n) ==
    /\ n > 1
    /\ msg_block[n - 1].k = "SG"
    /\ msg_block[n - 1].recv = <<>>
    /\ ~inside_match(msg_block, n - 1)

\* sm.group(11).split(','): the receiver text of signal line n of the block
receivers_str(msg_block, n) ==
    IF msg_block[n].recv # <<>> THEN msg_block[n].recv
    ELSE IF n < Len(msg_block) THEN line_pieces(msg_block[n + 1])
    ELSE <<>>

RECURSIVE signals_of_block(_, _)
\* msg.signals after the first n lines of the block
signals_of_block(msg_block, n) ==
    IF n = 0 THEN Ok(<<>>)
    ELSE LET signals == signals_of_block(msg_block, n - 1)
             sig == parse_signal([msg_block[n] EXCEPT !.recv = receivers_str(msg_block, n)])
         IN  IF signals = Raise THEN Raise
             ELSE IF msg_block[n].k # "SG" \/ inside_match(msg_block, n) THEN signals
             ELSE IF sig = Raise THEN Raise
             ELSE Ok(DictSet(signals.v, "name", sig.name, sig))

\* The signals dict of one message from its block of lines: every match of
\* sig_pattern in the block, in order, stored under its name; Raise if one of
\* them raises.
parse_signals(msg_block) == signals_of_block(msg_block, Len(msg_block))

\* msg_matches: the indices of the message declaration lines, ascending
RECURSIVE SortedSeq(_)
SortedSeq(S) ==
    IF S = {} THEN <<>>
    ELSE LET m == CHOOSE x \in S : \A y \in S : x <= y
         IN  <<m>> \o SortedSeq(S \ {m})

\* The Message of the i-th message declaration: its own fields and the signals
\* of the block from its line to the next declaration or the end of the text.
parse_message(content, msg_matches, i) ==
    LET mm == content[msg_matches[i]]
        start_pos == msg_matches[i] + 1
        end_pos == IF i + 1 <= Len(msg_matches) THEN msg_matches[i + 1] - 1
                   ELSE Len(content)
        signals == parse_signals(SubSeq(content, start_pos, end_pos))
    IN  IF signals = Raise THEN Raise
        ELSE [Message EXCEPT
                 !.msg_id = py_int(mm.id),
                 !.name = mm.name,
                 !.dlc = py_int(mm.dlc),
                 !.transmitter = mm.tx,
                 !.signals = signals.v]

RECURSIVE parse_messages(_, _, _)
\* db.messages after the first n message declarations; Raise if one raised.
parse_messages(content, msg_matches, n) ==
    IF n = 0 THEN Ok(<<>>)
    ELSE LET messages == parse_messages(content, msg_matches, n - 1)
             msg == parse_message(content, msg_matches, n)
         IN  IF messages = Raise THEN Raise
             ELSE IF msg = Raise THEN Raise
             ELSE Ok(DictSet(messages.v, "msg_id", msg.msg_id, msg))

RECURSIVE CollectAttr(_, _, _, _)
\* The results dict of one attribute sweep over the first n lines: for every
\* line of shape k naming attr_name, results[key] = value, later lines
\* overwriting earlier ones.
CollectAttr(content, k, attr_name, n) ==
    IF n = 0 THEN <<>>
    ELSE LET results == CollectAttr(content, k, attr_name, n - 1)
             m == content[n]
         IN  IF m.k # k \/ m.attr # attr_name THEN results
             ELSE IF k = "BA_BO"
                  THEN DictSet(results, "key", py_int(m.id),
                               [key |-> py_int(m.id), val |-> py_int(m.val)])
             ELSE IF k = "BA_SG"
                  THEN DictSet(results, "key", <<py_int(m.id), m.sig>>,
                               [key |-> <<py_int(m.id), m.sig>>, val |-> py_int(m.val)])
             ELSE DictSet(results, "key", <<py_int(m.id), m.sig>>,
                          [key |-> <<py_int(m.id), m.sig>>, val |-> m.val])

parse_msg_int_attr(content, attr_name) ==
    CollectAttr(content, "BA_BO", attr_name, Len(content))
parse_sig_int_attr(content, attr_name) ==
    CollectAttr(content, "BA_SG", attr_name, Len(content))
parse_sig_str_attr(content, attr_name) ==
    CollectAttr(content, "BA_SG_STR", attr_name, Len(content))

\* for msg_id, val in results.items(): if msg_id in db.messages: set the field
apply_msg_attr(messages, results, field_name) ==
    [i \in DOMAIN messages |->
        IF HasKey(results, "key", messages[i].msg_id)
        THEN [messages[i] EXCEPT
                 ![field_name] = Get(results, "key", messages[i].msg_id).val]
        ELSE messages[i]]

\* the same for a signal field, attr_dict keyed by (msg_id, sig_name)
apply_sig_attr(messages, attr_dict, field_name) ==
    [i \in DOMAIN messages |->
        LET signals == messages[i].signals
        IN  [messages[i] EXCEPT !.signals =
                [j \in DOMAIN signals |->
                    LET key == <<messages[i].msg_id, signals[j].name>>
                    IN  IF HasKey(attr_dict, "key", key)
                        THEN [signals[j] EXCEPT
                                 ![field_name] = Get(attr_dict, "key", key).val]
                        ELSE signals[j]]]]

\* The fifteen integer message attributes and the field each one sets, in the
\* order parse_dbc sweeps them.
MSG_INT_ATTRS ==
    << <<"GenMsgCycleTime", "cycle_time">>,
       <<"GenMsgCycleTimeFast", "cycle_time_fast">>,
       <<"GenMsgCycleTimeActive", "cycle_time_active">>,
       <<"GenMsgSendType", "send_type">>,
       <<"GenMsgNrOfRepetition", "nr_of_repetition">>,
       <<"GenMsgDelayTime", "delay_time">>,
       <<"GenMsgStartDelayTime", "start_delay_time">>,
       <<"GenMsgILSupport", "il_support">>,
       <<"NmMessage", "nm_message">>,
       <<"NmAsrMessage", "nm_asr_message">>,
       <<"VFrameFormat", "vframe_format">>,
       <<"CANFD_BRS", "canfd_brs">>,
       <<"DiagRequest", "diag_request">>,
       <<"DiagResponse", "diag_response">>,
       <<"DiagState", "diag_state">> >>

\* The four integer signal attributes and their fields.
SIG_INT_ATTRS ==
    << <<"GenSigStartValue", "start_value">>,
       <<"GenSigInactiveValue", "inactive_value">>,
       <<"GenSigSendType", "send_type">>,
       <<"GenSigTimeoutTime_ALL", "timeout_time">> >>

\* The two string signal attributes and their fields.
SIG_STR_ATTRS ==
    << <<"InvalidValue", "invalid_value">>,
       <<"SystemSignalLongSymbol", "long_symbol">> >>

RECURSIVE msg_int_sweeps(_, _, _)
\* the first n integer message attribute sweeps
msg_int_sweeps(messages, content, n) ==
    IF n = 0 THEN messages
    ELSE apply_msg_attr(msg_int_sweeps(messages, content, n - 1),
                        parse_msg_int_attr(content, MSG_INT_ATTRS[n][1]),
                        MSG_INT_ATTRS[n][2])

RECURSIVE sig_int_sweeps(_, _, _)
sig_int_sweeps(messages, content, n) ==
    IF n = 0 THEN messages
    ELSE apply_sig_attr(sig_int_sweeps(messages, content, n - 1),
                        parse_sig_int_attr(content, SIG_INT_ATTRS[n][1]),
                        SIG_INT_ATTRS[n][2])

RECURSIVE sig_str_sweeps(_, _, _)
sig_str_sweeps(messages, content, n) ==
    IF n = 0 THEN messages
    ELSE apply_sig_attr(sig_str_sweeps(messages, content, n - 1),
                        parse_sig_str_attr(content, SIG_STR_ATTRS[n][1]),
                        SIG_STR_ATTRS[n][2])

\* db.messages[msg_id].<field> = val if msg_id in db.messages
SetMsgField(messages, msg_id, field_name, val) ==
    [i \in DOMAIN messages |->
        IF messages[i].msg_id = msg_id
        THEN [messages[i] EXCEPT ![field_name] = val]
        ELSE messages[i]]

\* An assignment to the signal of that name in whichever message holds one.
SetSigField_any_message(messages, msg_id, sig_name, field_name, val) ==
    [i \in DOMAIN messages |->
        [messages[i] EXCEPT !.signals =
            [j \in DOMAIN @ |->
                IF @[j].name = sig_name
                THEN [@[j] EXCEPT ![field_name] = val]
                ELSE @[j]]]]

\* db.messages[msg_id].signals[sig_name].<field> = val if both exist
SetSigField(messages, msg_id, sig_name, field_name, val) ==
    [i \in DOMAIN messages |->
        IF messages[i].msg_id = msg_id
        THEN [messages[i] EXCEPT !.signals =
                 [j \in DOMAIN @ |->
                     IF @[j].name = sig_name
                     THEN [@[j] EXCEPT ![field_name] = val]
                     ELSE @[j]]]
        ELSE messages[i]]

\* ", ".join(f"{num}: {desc}" for num, desc in pairs)
value_desc_of(pairs) ==
    Join(", ", [p \in DOMAIN pairs |-> pairs[p].num \o ": " \o pairs[p].label])

RECURSIVE line_sweeps(_, _, _)
\* The sweeps that assign while they iterate over the matches, over the first
\* n lines: the message long symbol, the value descriptions, the signal
\* comments and the message comments.  Each writes a field of its own.
line_sweeps(messages, content, n) ==
    IF n = 0 THEN messages
    ELSE LET before == line_sweeps(messages, content, n - 1)
             m == content[n]
         IN  CASE m.k = "BA_BO_STR" /\ m.attr = "SystemMessageLongSymbol" ->
                     SetMsgField(before, py_int(m.id), "long_symbol", m.val)
               [] m.k = "VAL" ->
                     SetSigField(before, py_int(m.id), m.sig, "value_desc",
                                 value_desc_of(m.pairs))
               [] m.k = "CM_SG" ->
                     SetSigField(before, py_int(m.id), m.sig, "comment", m.text)
               [] m.k = "CM_BO" ->
                     SetMsgField(before, py_int(m.id), "comment", m.text)
               [] OTHER -> before

\* re.search: the first line of shape k (and attribute attr_name), or 0
FirstMatch(content, k, attr_name) ==
    LET S == {i \in Matches(content, k) :
                 k = "BA_GLOBAL" => content[i].attr = attr_name}
    IN  IF S = {} THEN 0 ELSE CHOOSE i \in S : \A j \in S : i <= j

\* parse_dbc from the text it read on: the DBCDatabase, or Raise when a
\* signal line inside a message block makes float() raise.
parse_content(content) ==
    LET msg_matches == SortedSeq(Matches(content, "BO"))
        declared == parse_messages(content, msg_matches, Len(msg_matches))
        bu_match == FirstMatch(content, "BU", "")
        bus_match == FirstMatch(content, "BA_GLOBAL", "BusType")
        name_match == FirstMatch(content, "BA_GLOBAL", "DBName")
    IN  IF declared = Raise THEN Raise
        ELSE [DBCDatabase EXCEPT
                 !.nodes = IF bu_match # 0 THEN content[bu_match].names ELSE @,
                 !.messages =
                     line_sweeps(
                         sig_str_sweeps(
                             sig_int_sweeps(
                                 msg_int_sweeps(declared.v, content, Len(MSG_INT_ATTRS)),
                                 content, Len(SIG_INT_ATTRS)),
                             content, Len(SIG_STR_ATTRS)),
                         content, Len(content)),
                 !.bus_type = IF bus_match # 0 THEN content[bus_match].val ELSE @,
                 !.db_name = IF name_match # 0 THEN content[name_match].val ELSE @]

\* A file: its text when it can be read.
Readable(content) == [readable |-> TRUE, content |-> content]
Unreadable == [readable |-> FALSE]
IOError == [ty |-> "ioerror"]

\* Parse a DBC file and return a DBCDatabase object with ALL attributes; open()
\* and read() raise on a file that cannot be read.
parse_dbc(filepath) ==
    IF ~filepath.readable THEN IOError ELSE parse_content(filepath.content)

\* what a call raised, if it raised
Raised(result) == result = Raise \/ result = IOError

-----------------------------------------------------------------------------
(* Rows                                                                    *)

HexDigit(d) ==
    <<"0", "1", "2", "3", "4", "5", "6", "7", "8", "9",
      "A", "B", "C", "D", "E", "F">>[d + 1]

RECURSIVE HexStr(_)
\* f"{n:X}" for n >= 0
HexStr(n) == IF n < 16 THEN HexDigit(n) ELSE HexStr(n \div 16) \o HexDigit(n % 16)

\* f"0x{msg.msg_id:X}"
msg_id_hex(msg) == "0x" \o HexStr(msg.msg_id)

\* A format_number that drops the fraction of every float.
format_number_truncating(val) ==
    IF val.ty = "float" THEN float_to_int(val.f) ELSE val

\* Remove a trailing .0: a float equal to its integer part becomes that int;
\* int() raises on nan and on inf.
format_number(val) ==
    IF val.ty = "float"
    THEN LET as_int == float_to_int(val.f)
         IN  IF as_int = Raise THEN Raise
             ELSE IF PyEq(val, as_int) THEN as_int ELSE val
    ELSE val

\* Normalize a value for comparison.
normalize_val(v) ==
    IF v.ty = "None" THEN None
    ELSE IF v.ty = "float"
    THEN LET as_int == float_to_int(v.f)
         IN  IF as_int = Raise THEN Raise
             ELSE IF PyEq(v, as_int) THEN as_int ELSE v
    ELSE v

\* A list whose construction raised is no list.
ListOrRaise(cells) == IF \E i \in DOMAIN cells : cells[i] = Raise THEN Raise ELSE Ok(cells)

\* The message columns of a row (the same list in build_signal_row and in
\* build_empty_msg_row).
msg_part(msg) ==
    << StrV(msg_id_hex(msg)),
       StrV(display_name(msg)),
       StrV(enum_lookup(MSG_SEND_TYPE_ENUM, msg.send_type, "Cyclic")),
       IntV(msg.cycle_time),
       IntV(msg.cycle_time_fast),
       IntV(msg.cycle_time_active),
       IntV(msg.nr_of_repetition),
       IntV(msg.delay_time),
       IntV(msg.start_delay_time),
       IntV(msg.dlc),
       StrV(enum_lookup(VFRAME_FORMAT_ENUM, msg.vframe_format, "StandardCAN_FD")),
       StrV(enum_lookup(CANFD_BRS_ENUM, msg.canfd_brs, "1")),
       StrV(msg.transmitter),
       StrV(enum_lookup(IL_ENUM, msg.il_support, "Yes")),
       StrV(enum_lookup(NM_ENUM, msg.nm_message, "No")),
       StrV(enum_lookup(DIAG_ENUM, msg.diag_request, "No")),
       StrV(enum_lookup(DIAG_ENUM, msg.diag_response, "No")),
       StrV(enum_lookup(DIAG_ENUM, msg.diag_state, "No")),
       StrOrNone(msg.comment) >>

\* The signal columns of a row.
sig_part(sig) ==
    << StrV(display_name(sig)),
       IntV(natural_start_bit(sig)),
       IntV(sig.length),
       StrV(endian_str(sig)),
       StrV(signed_str(sig)),
       format_number(FloatV(sig.factor)),
       format_number(FloatV(sig.offset)),
       format_number(FloatV(sig.minimum)),
       format_number(FloatV(sig.maximum)),
       StrOrNone(sig.unit),
       StrOrNone(sig.invalid_value),
       IntV(sig.start_value),
       IntV(sig.inactive_value),
       StrV(enum_lookup(SIG_SEND_TYPE_ENUM, sig.send_type, "Cyclic")),
       IntV(sig.timeout_time),
       StrOrNone(sig.value_desc),
       StrOrNone(sig.comment),
       StrV(Join(", ", sig.receivers)) >>

\* The stored field each column of a row is built from: of the message for
\* the message columns, of the signal for the signal columns.
ROW_FIELDS ==
    << <<"msg", "msg_id">>, <<"msg", "name">>, <<"msg", "send_type">>,
       <<"msg", "cycle_time">>, <<"msg", "cycle_time_fast">>,
       <<"msg", "cycle_time_active">>, <<"msg", "nr_of_repetition">>,
       <<"msg", "delay_time">>, <<"msg", "start_delay_time">>, <<"msg", "dlc">>,
       <<"msg", "vframe_format">>, <<"msg", "canfd_brs">>, <<"msg", "transmitter">>,
       <<"msg", "il_support">>, <<"msg", "nm_message">>, <<"msg", "diag_request">>,
       <<"msg", "diag_response">>, <<"msg", "diag_state">>, <<"msg", "comment">>,
       <<"sig", "name">>, <<"sig", "start_bit">>, <<"sig", "length">>,
       <<"sig", "byte_order">>, <<"sig", "value_type">>, <<"sig", "factor">>,
       <<"sig", "offset">>, <<"sig", "minimum">>, <<"sig", "maximum">>,
       <<"sig", "unit">>, <<"sig", "invalid_value">>, <<"sig", "start_value">>,
       <<"sig", "inactive_value">>, <<"sig", "send_type">>, <<"sig", "timeout_time">>,
       <<"sig", "value_desc">>, <<"sig", "comment">>, <<"sig", "receivers">> >>

\* Build a full row = message columns + signal columns.
build_signal_row(msg, sig) == ListOrRaise(msg_part(msg) \o sig_part(sig))

\* An empty-signal row whose signal slots hold empty strings.
build_empty_msg_row_blank(msg) ==
    ListOrRaise(msg_part(msg) \o [i \in 1..NUM_SIG_COLS |-> StrV("")])

\* Build a row with message info but empty signal fields.
build_empty_msg_row(msg) ==
    ListOrRaise(msg_part(msg) \o [i \in 1..NUM_SIG_COLS |-> None])

\* Build a completely empty row.
build_empty_row == Ok([i \in 1..NUM_COLS_PER_SIDE |-> None])

\* Python's a != b on two normalized cells
cells_differ(a, b) == ~PyEq(normalize_val(a), normalize_val(b))

\* A check_row_diff that tests len(diff_cols) >= 0.
check_row_diff_always(old_row, new_row) ==
    LET diff_cols == {i - 1 : i \in {j \in DOMAIN old_row :
                                        cells_differ(old_row[j], new_row[j])}}
    IN  [has_diff |-> Cardinality(diff_cols) >= 0, diff_cols |-> diff_cols]

\* A check that numbers the columns from 1.
check_row_diff_from_one(old_row, new_row) ==
    LET diff_cols == {j \in DOMAIN old_row : cells_differ(old_row[j], new_row[j])}
    IN  [has_diff |-> Cardinality(diff_cols) > 0, diff_cols |-> diff_cols]

\* Check if two rows differ: (has_diff, diff_col_indices), columns from 0.
check_row_diff(old_row, new_row) ==
    LET diff_cols == {i - 1 : i \in {j \in DOMAIN old_row :
                                        cells_differ(old_row[j], new_row[j])}}
    IN  [has_diff |-> Cardinality(diff_cols) > 0, diff_cols |-> diff_cols]

\* A tuple that marks every column once one column differs.
checked_row_all_cols(old_row, new_row) ==
    IF old_row = Raise \/ new_row = Raise THEN Raise
    ELSE LET d == check_row_diff(old_row.v, new_row.v)
         IN  [old_row |-> old_row.v, new_row |-> new_row.v,
              has_diff |-> d.has_diff,
              diff_cols |-> IF d.has_diff THEN 0..(NUM_COLS_PER_SIDE - 1) ELSE {}]

\* One tuple of the row list, its difference computed by check_row_diff;
\* Raise when building either side raised.
checked_row(old_row, new_row) ==
    IF old_row = Raise \/ new_row = Raise THEN Raise
    ELSE LET d == check_row_diff(old_row.v, new_row.v)
         IN  [old_row |-> old_row.v, new_row |-> new_row.v,
              has_diff |-> d.has_diff, diff_cols |-> d.diff_cols]

\* A one-sided tuple that marks the message columns only.
one_sided_row_msg_cols(old_row, new_row) ==
    IF old_row = Raise \/ new_row = Raise THEN Raise
    ELSE [old_row |-> old_row.v, new_row |-> new_row.v,
          has_diff |-> TRUE, diff_cols |-> 0..(NUM_MSG_COLS - 1)]

\* One tuple of the row list for a message of one side only: every column.
one_sided_row(old_row, new_row) ==
    IF old_row = Raise \/ new_row = Raise THEN Raise
    ELSE [old_row |-> old_row.v, new_row |-> new_row.v,
          has_diff |-> TRUE, diff_cols |-> 0..(NUM_COLS_PER_SIDE - 1)]

RECURSIVE Flatten(_)
Flatten(seqs) ==
    IF seqs = <<>> THEN <<>>
    ELSE Flatten(SubSeq(seqs, 1, Len(seqs) - 1)) \o seqs[Len(seqs)]

RECURSIVE Dedup(_)
\* list(OrderedDict.fromkeys(names))
Dedup(names) ==
    IF names = <<>> THEN <<>>
    ELSE LET front == Dedup(SubSeq(names, 1, Len(names) - 1))
             last == names[Len(names)]
         IN  IF \E i \in DOMAIN front : front[i] = last THEN front
             ELSE Append(front, last)

\* The union of the ids in insertion order: the old ids, then the new-only ones.
all_msg_ids_unsorted(odb, ndb) ==
    Dedup(Keys(odb.messages, "msg_id") \o Keys(ndb.messages, "msg_id"))

\* sorted(set(list(old_db.messages.keys()) + list(new_db.messages.keys())))
all_msg_ids(odb, ndb) ==
    SortedSeq({odb.messages[i].msg_id : i \in DOMAIN odb.messages}
              \cup {ndb.messages[i].msg_id : i \in DOMAIN ndb.messages})

\* A union of the signal names that holds the old names only.
all_sig_names_old_only(old_msg, new_msg) == Keys(old_msg.signals, "name")

\* A union of the signal names that puts the new names first.
all_sig_names_new_first(old_msg, new_msg) ==
    Dedup(Keys(new_msg.signals, "name") \o Keys(old_msg.signals, "name"))

\* the union of the signal names: the old ones first, then the new-only ones
all_sig_names(old_msg, new_msg) ==
    Dedup(Keys(old_msg.signals, "name") \o Keys(new_msg.signals, "name"))

\* The rows of one message id of the union (the body of the loop of
\* compare_dbc_files).
rows_of_msg(odb, ndb, msg_id) ==
    LET in_old == HasKey(odb.messages, "msg_id", msg_id)
        in_new == HasKey(ndb.messages, "msg_id", msg_id)
        old_msg == Get(odb.messages, "msg_id", msg_id)
        new_msg == Get(ndb.messages, "msg_id", msg_id)
    IN  IF in_old /\ in_new
        THEN LET names == all_sig_names(old_msg, new_msg)
             IN  IF names = <<>>
                 THEN <<checked_row(build_empty_msg_row(old_msg),
                                    build_empty_msg_row(new_msg))>>
                 ELSE [s \in DOMAIN names |->
                          LET has_old == HasKey(old_msg.signals, "name", names[s])
                              has_new == HasKey(new_msg.signals, "name", names[s])
                              old_sig == Get(old_msg.signals, "name", names[s])
                              new_sig == Get(new_msg.signals, "name", names[s])
                          IN  IF has_old /\ has_new
                              THEN checked_row(build_signal_row(old_msg, old_sig),
                                               build_signal_row(new_msg, new_sig))
                              ELSE IF has_old
                              THEN checked_row(build_signal_row(old_msg, old_sig),
                                               build_empty_msg_row(new_msg))
                              ELSE checked_row(build_empty_msg_row(old_msg),
                                               build_signal_row(new_msg, new_sig))]
        ELSE IF in_old
        THEN IF old_msg.signals # <<>>
             THEN [s \in DOMAIN old_msg.signals |->
                      one_sided_row(build_signal_row(old_msg, old_msg.signals[s]),
                                    build_empty_row)]
             ELSE <<one_sided_row(build_empty_msg_row(old_msg), build_empty_row)>>
        ELSE IF new_msg.signals # <<>>
             THEN [s \in DOMAIN new_msg.signals |->
                      one_sided_row(build_empty_row,
                                    build_signal_row(new_msg, new_msg.signals[s]))]
             ELSE <<one_sided_row(build_empty_row, build_empty_msg_row(new_msg))>>

\* Compare two DBC databases and produce aligned rows: the list of
\* (old_row, new_row, has_diff, diff_cols), or Raise.
compare_dbc_files(odb, ndb) ==
    LET ids == all_msg_ids(odb, ndb)
        rows == Flatten([m \in DOMAIN ids |-> rows_of_msg(odb, ndb, ids[m])])
    IN  ListOrRaise(rows)

-----------------------------------------------------------------------------
(* The classified lists                                                    *)

\* The node names of the documents in the order sorted() puts them (by code
\* point): sorted() of a set of receiver names is its names in this order.
SORTED_NAMES == <<"ECU1", "ECU2", "ECU3", "Vector__XXX">>

\* sorted(S) for a set S of node names
sorted_names(S) ==
    SeqFilter(SORTED_NAMES, {i \in DOMAIN SORTED_NAMES : SORTED_NAMES[i] \in S})

\* Get all receiver ECU names for a message (union across all signals).
get_msg_rx_ecus(msg) ==
    LET rx == {r \in UNION {{msg.signals[s].receivers[j] :
                                j \in DOMAIN msg.signals[s].receivers} :
                            s \in DOMAIN msg.signals} :
                  r # "" /\ r # "Vector__XXX"}
    IN  Join(", ", sorted_names(rx))

\* Get newline-separated signal names for a message.
get_msg_signal_list(msg) ==
    Join("\n", [s \in DOMAIN msg.signals |-> display_name(msg.signals[s])])

\* Build a summary row for new/removed messages sheets (8 columns).
build_msg_summary_row(msg) ==
    << StrV(msg_id_hex(msg)),
       StrV(display_name(msg)),
       IntV(msg.dlc),
       StrV(get_msg_signal_list(msg)),
       StrV(enum_lookup(MSG_SEND_TYPE_ENUM, msg.send_type, "Cyclic")),
       IntV(msg.cycle_time),
       StrV(msg.transmitter),
       StrV(get_msg_rx_ecus(msg)) >>

\* Build a summary row for new/removed signals sheets (12 columns).
build_sig_summary_row(msg, sig) ==
    ListOrRaise(
        << StrV(msg_id_hex(msg)),
           StrV(display_name(msg)),
           StrV(display_name(sig)),
           IntV(natural_start_bit(sig)),
           IntV(sig.length),
           IntV(sig.start_value),
           format_number(FloatV(sig.minimum)),
           format_number(FloatV(sig.maximum)),
           StrV(sig.unit),
           format_number(FloatV(sig.factor)),
           StrV(sig.value_desc),
           StrV(Join(", ", sig.receivers)) >>)

\* [i for i in range(len(old_row)) if normalize_val(old_row[i]) != normalize_val(new_row[i])]
diff_indices(old_row, new_row) ==
    LET S == {i - 1 : i \in {j \in DOMAIN old_row :
                                cells_differ(old_row[j], new_row[j])}}
    IN  SortedSeq(S)

\* The cascade of an old message that stops after its first signal.
removed_cascade_first_only(old_msg) ==
    [s \in DOMAIN old_msg.signals \cap {1} |->
        [msg |-> old_msg, sig |-> old_msg.signals[s]]]
\* for sig in old_msg.signals.values(): removed_signals.append((old_msg, sig))
removed_cascade(old_msg) ==
    [s \in DOMAIN old_msg.signals |-> [msg |-> old_msg, sig |-> old_msg.signals[s]]]

\* The cascade of a new message with its signals last to first.
new_cascade_reversed(new_msg) ==
    [s \in DOMAIN new_msg.signals |->
        [msg |-> new_msg, sig |-> new_msg.signals[Len(new_msg.signals) + 1 - s]]]
\* for sig in new_msg.signals.values(): new_signals.append((new_msg, sig))
new_cascade(new_msg) ==
    [s \in DOMAIN new_msg.signals |-> [msg |-> new_msg, sig |-> new_msg.signals[s]]]

\* What one message id of the union adds to the six lists (the body of the
\* loop of categorize_changes); Raise in place of a modified-signal entry
\* whose summary row raised.
cats_of_msg(odb, ndb, msg_id) ==
    LET in_old == HasKey(odb.messages, "msg_id", msg_id)
        in_new == HasKey(ndb.messages, "msg_id", msg_id)
        old_msg == Get(odb.messages, "msg_id", msg_id)
        new_msg == Get(ndb.messages, "msg_id", msg_id)
        none == [new_messages |-> <<>>, removed_messages |-> <<>>,
                 modified_messages |-> <<>>, new_signals |-> <<>>,
                 removed_signals |-> <<>>, modified_signals |-> <<>>]
    IN  IF in_old /\ ~in_new
        THEN [none EXCEPT
                 !.removed_messages = <<old_msg>>,
                 !.removed_signals = removed_cascade(old_msg)]
        ELSE IF in_new /\ ~in_old
        THEN [none EXCEPT
                 !.new_messages = <<new_msg>>,
                 !.new_signals = new_cascade(new_msg)]
        ELSE LET msg_diffs == diff_indices(build_msg_summary_row(old_msg),
                                           build_msg_summary_row(new_msg))
                 all_sigs == all_sig_names(old_msg, new_msg)
                 only_old == {s \in DOMAIN all_sigs :
                                 ~HasKey(new_msg.signals, "name", all_sigs[s])}
                 only_new == {s \in DOMAIN all_sigs :
                                 ~HasKey(old_msg.signals, "name", all_sigs[s])}
                 both == DOMAIN all_sigs \ (only_old \cup only_new)
                 entry(s) ==
                     LET old_sig == Get(old_msg.signals, "name", all_sigs[s])
                         new_sig == Get(new_msg.signals, "name", all_sigs[s])
                         old_sr == build_sig_summary_row(old_msg, old_sig)
                         new_sr == build_sig_summary_row(new_msg, new_sig)
                     IN  IF old_sr = Raise \/ new_sr = Raise THEN Raise
                         ELSE [old_msg |-> old_msg, new_msg |-> new_msg,
                               old_sig |-> old_sig, new_sig |-> new_sig,
                               sig_diffs |->
                                   diff_indices(SubSeq(old_sr.v, 4, Len(old_sr.v)),
                                                SubSeq(new_sr.v, 4, Len(new_sr.v)))]
                 entries == [s \in DOMAIN all_sigs |->
                                IF s \in both THEN entry(s) ELSE Raise]
             IN  [none EXCEPT
                     !.modified_messages =
                         IF msg_diffs # <<>>
                         THEN <<[old_msg |-> old_msg, new_msg |-> new_msg,
                                 msg_diffs |-> msg_diffs]>>
                         ELSE <<>>,
                     !.removed_signals =
                         [s \in DOMAIN SeqFilter(all_sigs, only_old) |->
                             [msg |-> old_msg,
                              sig |-> Get(old_msg.signals, "name",
                                          SeqFilter(all_sigs, only_old)[s])]],
                     !.new_signals =
                         [s \in DOMAIN SeqFilter(all_sigs, only_new) |->
                             [msg |-> new_msg,
                              sig |-> Get(new_msg.signals, "name",
                                          SeqFilter(all_sigs, only_new)[s])]],
                     !.modified_signals =
                         SeqFilter(entries,
                                   {s \in both : entries[s] = Raise
                                                 \/ entries[s].sig_diffs # <<>>})]

\* Categorize changes into new/removed/modified messages and signals: the
\* dict of the six lists, or Raise.
categorize_changes(odb, ndb) ==
    LET ids == all_msg_ids(odb, ndb)
        parts == [m \in DOMAIN ids |-> cats_of_msg(odb, ndb, ids[m])]
        modified_signals == Flatten([m \in DOMAIN ids |-> parts[m].modified_signals])
    IN  IF \E i \in DOMAIN modified_signals : modified_signals[i] = Raise
        THEN Raise
        ELSE [ty |-> "dict",
              new_messages |-> Flatten([m \in DOMAIN ids |-> parts[m].new_messages]),
              removed_messages |->
                  Flatten([m \in DOMAIN ids |-> parts[m].removed_messages]),
              modified_messages |->
                  Flatten([m \in DOMAIN ids |-> parts[m].modified_messages]),
              new_signals |-> Flatten([m \in DOMAIN ids |-> parts[m].new_signals]),
              removed_signals |->
                  Flatten([m \in DOMAIN ids |-> parts[m].removed_signals]),
              modified_signals |-> modified_signals]

-----------------------------------------------------------------------------
(* The documents the files may hold                                        *)

BO(id, name, dlc, tx) == [k |-> "BO", id |-> id, name |-> name, dlc |-> dlc, tx |-> tx]
SG(name, scale, recv) ==
    [k |-> "SG", name |-> name, start |-> "0", len |-> "8", order |-> "1",
     sign |-> "+", scale |-> scale, offset |-> "0", min |-> "0", max |-> "100",
     unit |-> "", recv |-> recv]

BA_BO(attr, id, val) == [k |-> "BA_BO", attr |-> attr, id |-> id, val |-> val]
BA_BO_STR(attr, id, val) == [k |-> "BA_BO_STR", attr |-> attr, id |-> id, val |-> val]
BA_SG(attr, id, sig, val) ==
    [k |-> "BA_SG", attr |-> attr, id |-> id, sig |-> sig, val |-> val]
BA_SG_STR(attr, id, sig, val) ==
    [k |-> "BA_SG_STR", attr |-> attr, id |-> id, sig |-> sig, val |-> val]

\* The longest old document, in lines.
MaxLines == 4
\* The longest old document that a revision appends an attribute record to,
\* or whose lines an old document holds in a variant spelling.
MaxBaseLines == 2

\* The declaration lines of the old documents: two messages, two signals.
DeclLines ==
    { BO("10", "MsgA", "8", "ECU1"),
      BO("256", "MsgB", "8", "ECU1"),
      SG("a", "5", <<"ECU2">>),
      SG("b", "0.5", <<"ECU3", "", "ECU2">>) }

Docs == UNION {[1..n -> DeclLines] : n \in 0..MaxLines}

\* Other spellings of a declaration line: a message line with another length
\* or the other id; a signal line with another scale, among them a whole
\* number written with a fraction, texts float() reads as nan, and a text
\* that is no number.
Variants(line) ==
    IF line.k = "BO"
    THEN {[line EXCEPT !.dlc = "4"],
          [line EXCEPT !.id = IF line.id = "10" THEN "256" ELSE "10"]}
    ELSE {[line EXCEPT !.scale = s] : s \in {"5.0", "5.5", "nan", "abc"}}

\* One record per typed attribute, naming message 10 or its signal a, that
\* sets the attribute to the default documented for it.
DefaultRecords ==
    {BA_BO(MSG_INT_ATTRS[n][1], "10", "0") :
        n \in {m \in DOMAIN MSG_INT_ATTRS :
                  MSG_INT_ATTRS[m][1] \notin {"GenMsgILSupport", "VFrameFormat", "CANFD_BRS"}}}
    \cup {BA_BO("GenMsgILSupport", "10", "1"),
          BA_BO("VFrameFormat", "10", "14"),
          BA_BO("CANFD_BRS", "10", "1"),
          BA_BO_STR("SystemMessageLongSymbol", "10", "")}
    \cup {BA_SG(SIG_INT_ATTRS[n][1], "10", "a", "0") : n \in DOMAIN SIG_INT_ATTRS}
    \cup {BA_SG_STR(SIG_STR_ATTRS[n][1], "10", "a", "") : n \in DOMAIN SIG_STR_ATTRS}

RemoveAt(s, i) == SubSeq(s, 1, i - 1) \o SubSeq(s, i + 1, Len(s))
SwapAt(s, i) == [s EXCEPT ![i] = s[i + 1], ![i + 1] = s[i]]

Replaces(doc) == {[doc EXCEPT ![i] = v] : <<i, v>> \in
                     UNION {{<<j, w>> : w \in Variants(doc[j])} : j \in DOMAIN doc}}

\* A document that declares message 10 twice, with another name, length and
\* transmitter the second time, message 256 between the two; the first block
\* holds a signal the second lacks, the second names signal a twice.
DuplicateDoc ==
    << BO("10", "MsgA", "8", "ECU1"),
       SG("c", "5", <<"ECU2">>),
       BO("256", "MsgB", "8", "ECU1"),
       BO("10", "MsgC", "4", "ECU2"),
       SG("a", "5", <<"ECU2">>),
       SG("b", "0.5", <<"ECU3", "", "ECU2">>),
       SG("a", "5.5", <<"ECU3">>) >>

\* The texts the old file may hold: the documents, the short ones with one
\* line in a variant spelling, and the document of the duplicates.
OldDocs ==
    Docs \cup UNION {Replaces(doc) : doc \in {d \in Docs : Len(d) <= MaxBaseLines}}
         \cup {DuplicateDoc}

\* The texts the new file may hold, given the old one: the same text; the
\* text with one line removed, replaced by a variant, or exchanged with the
\* next line; with one declaration line appended; with one attribute record
\* appended (short documents); and the empty text.
Revisions(doc) ==
    {doc, <<>>}
    \cup {RemoveAt(doc, i) : i \in DOMAIN doc}
    \cup {SwapAt(doc, i) : i \in 1..(Len(doc) - 1)}
    \cup Replaces(doc)
    \cup {Append(doc, d) : d \in DeclLines}
    \cup IF Len(doc) <= MaxBaseLines
         THEN {Append(doc, r) : r \in DefaultRecords}
         ELSE {}

-----------------------------------------------------------------------------
(* main(): the body of its loop over the buses, for one bus                *)

Unset == [ty |-> "unset"]

Init ==
    /\ old_path = Unset
    /\ new_path = Unset
    /\ old_db = Unset
    /\ new_db = Unset
    /\ comparison_rows = Unset
    /\ cats = Unset
    /\ pc = "parse_old"
    /\ compare_btn = "normal"
    /\ open_btn = "disabled"
    /\ is_running = FALSE
    /\ threads = <<>>
    /\ after_queue = <<>>

\* old_db = parse_dbc(old_path); an exception ends main().
ParseOld ==
    /\ pc = "parse_old"
    /\ \E file \in {Readable(c) : c \in OldDocs} \cup {Unreadable} :
          /\ old_path' = file
          /\ old_db' = parse_dbc(file)
    /\ pc' = IF Raised(old_db') THEN "failed" ELSE "parse_new"
    /\ UNCHANGED <<new_path, new_db, comparison_rows, cats, app>>

\* new_db = parse_dbc(new_path)
ParseNew ==
    /\ pc = "parse_new"
    /\ \E file \in {Readable(c) : c \in Revisions(old_path.content)} \cup {Unreadable} :
          /\ new_path' = file
          /\ new_db' = parse_dbc(file)
    /\ pc' = IF Raised(new_db') THEN "failed" ELSE "compare"
    /\ UNCHANGED <<old_path, old_db, comparison_rows, cats, app>>

\* A comparison that sorts the messages of old_db in place first.
Compare_sorting ==
    /\ pc = "compare"
    /\ old_db' = [old_db EXCEPT !.messages =
                      LET ids == all_msg_ids(old_db, old_db)
                      IN  [i \in DOMAIN ids |-> Get(old_db.messages, "msg_id", ids[i])]]
    /\ comparison_rows' = compare_dbc_files(old_db', new_db)
    /\ pc' = IF Raised(comparison_rows') THEN "failed" ELSE "categorize"
    /\ UNCHANGED <<old_path, new_path, new_db, cats, app>>

\* comparison_rows = compare_dbc_files(old_db, new_db)
Compare ==
    /\ pc = "compare"
    /\ comparison_rows' = compare_dbc_files(old_db, new_db)
    /\ pc' = IF Raised(comparison_rows') THEN "failed" ELSE "categorize"
    /\ UNCHANGED <<old_path, new_path, old_db, new_db, cats, app>>

\* cats = categorize_changes(old_db, new_db)
Categorize ==
    /\ pc = "categorize"
    /\ cats' = categorize_changes(old_db, new_db)
    /\ pc' = IF Raised(cats') THEN "failed" ELSE "done"
    /\ UNCHANGED <<old_path, new_path, old_db, new_db, comparison_rows, app>>

Next == ParseOld \/ ParseNew \/ Compare \/ Categorize

Spec == Init /\ [][Next]_vars

-----------------------------------------------------------------------------
(* main() on annotated documents: two messages with a signal each, and      *)
(* attribute, comment, value-table and global records after them            *)

VAL(id, sig, pairs) == [k |-> "VAL", id |-> id, sig |-> sig, pairs |-> pairs]
CM_SG(id, sig, text) == [k |-> "CM_SG", id |-> id, sig |-> sig, text |-> text]
CM_BO(id, text) == [k |-> "CM_BO", id |-> id, text |-> text]
BA_GLOBAL(attr, val) == [k |-> "BA_GLOBAL", attr |-> attr, val |-> val]
JUNK == [k |-> "JUNK"]

\* The most records an old document holds after its declarations.
MaxOldRecords == 1

\* message 10 with signal a, message 256 with signal b
BaseDoc ==
    << BO("10", "MsgA", "8", "ECU1"), SG("a", "5", <<"ECU2">>),
       BO("256", "MsgB", "8", "ECU1"), SG("b", "0.5", <<"ECU3", "", "ECU2">>) >>

\* records that set a field of message 10
MsgRecords ==
    { BA_BO("GenMsgCycleTime", "10", "2"), BA_BO("GenMsgCycleTime", "10", "3"),
      BA_BO("GenMsgCycleTimeFast", "10", "2"),
      BA_BO("GenMsgSendType", "10", "2"), BA_BO("GenMsgSendType", "10", "3"),
      BA_BO("GenMsgILSupport", "10", "0"),
      BA_BO("NmAsrMessage", "10", "1"),
      BA_BO("DiagState", "10", "1"),
      BA_BO_STR("SystemMessageLongSymbol", "10", "Long"),
      CM_BO("10", "t1"), CM_BO("10", "t2") }

\* records that set a field of signal a of message 10
SigRecords ==
    { BA_SG("GenSigStartValue", "10", "a", "2"), BA_SG("GenSigStartValue", "10", "a", "3"),
      BA_SG("GenSigTimeoutTime_ALL", "10", "a", "2"),
      BA_SG("GenSigSendType", "10", "a", "2"),
      BA_SG_STR("InvalidValue", "10", "a", "x"), BA_SG_STR("InvalidValue", "10", "a", "y"),
      BA_SG_STR("SystemSignalLongSymbol", "10", "a", "Long"),
      VAL("10", "a", <<[num |-> "0", label |-> "Off"]>>),
      VAL("10", "a", <<[num |-> "0", label |-> "Off"], [num |-> "1", label |-> "On"]>>),
      CM_SG("10", "a", "t1"), CM_SG("10", "a", "t2") }

\* records that set an attribute of the document
GlobalRecords ==
    { BA_GLOBAL("BusType", "CAN"), BA_GLOBAL("BusType", "CAN FD"),
      BA_GLOBAL("DBName", "A"), BA_GLOBAL("DBName", "B") }

\* records that name message 9, which no document declares, or signal b of
\* message 10, which message 256 declares and message 10 does not
DanglingRecords ==
    { BA_BO("GenMsgCycleTime", "9", "2"),
      BA_BO_STR("SystemMessageLongSymbol", "9", "Long"),
      BA_SG("GenSigStartValue", "10", "b", "2"),
      BA_SG_STR("InvalidValue", "9", "a", "x"),
      VAL("10", "b", <<[num |-> "0", label |-> "Off"]>>),
      CM_SG("10", "b", "t1"),
      CM_BO("9", "t1") }

\* a line no expression matches, and a signal line whose scale is no number
MalformedLines == { JUNK, SG("c", "abc", <<"ECU2">>) }

Records == MsgRecords \cup SigRecords \cup GlobalRecords \cup DanglingRecords
               \cup MalformedLines

\* records that set an enum-valued field of message 10 or its signal a to an
\* index below 0, inside the table, or at or beyond its length
EnumRecords ==
    { BA_BO("GenMsgSendType", "10", "-1"), BA_BO("GenMsgSendType", "10", "9"),
      BA_BO("GenMsgSendType", "10", "10"),
      BA_BO("VFrameFormat", "10", "1"), BA_BO("VFrameFormat", "10", "16"),
      BA_BO("CANFD_BRS", "10", "0"), BA_BO("CANFD_BRS", "10", "2"),
      BA_BO("GenMsgILSupport", "10", "2"),
      BA_BO("NmMessage", "10", "1"), BA_BO("NmMessage", "10", "-1"),
      BA_BO("DiagRequest", "10", "2"), BA_BO("DiagResponse", "10", "1"),
      BA_BO("DiagState", "10", "-1"),
      BA_SG("GenSigSendType", "10", "a", "-1"), BA_SG("GenSigSendType", "10", "a", "8") }

\* The texts the old file may hold: the declarations and up to MaxOldRecords
\* records after them.
AnnotatedDocs ==
    {BaseDoc \o records : records \in UNION {[1..n -> Records] : n \in 0..MaxOldRecords}}

\* Other spellings of a declaration: message 10 under another name, signal a
\* with another offset or signed.
Respelled(line) ==
    IF line.k = "BO" /\ line.id = "10" THEN {[line EXCEPT !.name = "MsgC"]}
    ELSE IF line.k = "SG" /\ line.name = "a"
    THEN {[line EXCEPT !.offset = "5"], [line EXCEPT !.sign = "-"]}
    ELSE {}

\* The texts the new file may hold, given the old one: the same text; the
\* text with one record more at its end; with a malformed line before it;
\* with one declaration respelled.
AnnotatedRevisions(doc) ==
    {doc}
    \cup {Append(doc, record) : record \in Records}
    \cup {Append(doc, record) : record \in EnumRecords}
    \cup {<<line>> \o doc : line \in MalformedLines}
    \cup UNION {{[doc EXCEPT ![i] = line] : line \in Respelled(doc[i])} : i \in DOMAIN doc}

\* old_db = parse_dbc(old_path), on an annotated document
ParseOldAnnotated ==
    /\ pc = "parse_old"
    /\ \E file \in {Readable(c) : c \in AnnotatedDocs} :
          /\ old_path' = file
          /\ old_db' = parse_dbc(file)
    /\ pc' = IF Raised(old_db') THEN "failed" ELSE "parse_new"
    /\ UNCHANGED <<new_path, new_db, comparison_rows, cats, app>>

\* new_db = parse_dbc(new_path), on a revision of the annotated document
ParseNewAnnotated ==
    /\ pc = "parse_new"
    /\ \E file \in {Readable(c) : c \in AnnotatedRevisions(old_path.content)} :
          /\ new_path' = file
          /\ new_db' = parse_dbc(file)
    /\ pc' = IF Raised(new_db') THEN "failed" ELSE "compare"
    /\ UNCHANGED <<old_path, old_db, comparison_rows, cats, app>>

NextAnnotated == ParseOldAnnotated \/ ParseNewAnnotated \/ Compare \/ Categorize

SpecAnnotated == Init /\ [][NextAnnotated]_vars

-----------------------------------------------------------------------------
(* main() on a document and the same document with one record moved        *)

\* The most records an old document holds after its declarations.
MaxMovedRecords == 2

\* the declarations as they are, and with no receiver after signal a's unit
ReorderBases == {BaseDoc, [BaseDoc EXCEPT ![2].recv = <<>>]}

MovableRecords == MsgRecords \cup SigRecords \cup GlobalRecords \cup DanglingRecords

ReorderDocs ==
    {base \o records :
        base \in ReorderBases,
        records \in UNION {[1..n -> MovableRecords] : n \in 1..MaxMovedRecords}}

InsertAt(s, j, line) == SubSeq(s, 1, j - 1) \o <<line>> \o SubSeq(s, j, Len(s))

\* line i of the document taken out and put back as line j
Move(doc, i, j) == InsertAt(RemoveAt(doc, i), j, doc[i])

\* The texts the new file may hold, given the old one: one of its records at
\* any line position.
Moves(doc) ==
    {Move(doc, i, j) : i \in (Len(BaseDoc) + 1)..Len(doc), j \in DOMAIN doc}

\* old_db = parse_dbc(old_path), on declarations followed by records
ParseOldReordered ==
    /\ pc = "parse_old"
    /\ \E file \in {Readable(c) : c \in ReorderDocs} :
          /\ old_path' = file
          /\ old_db' = parse_dbc(file)
    /\ pc' = IF Raised(old_db') THEN "failed" ELSE "parse_new"
    /\ UNCHANGED <<new_path, new_db, comparison_rows, cats, app>>

\* new_db = parse_dbc(new_path), on the document with a record moved
ParseNewReordered ==
    /\ pc = "parse_new"
    /\ \E file \in {Readable(c) : c \in Moves(old_path.content)} :
          /\ new_path' = file
          /\ new_db' = parse_dbc(file)
    /\ pc' = IF Raised(new_db') THEN "failed" ELSE "compare"
    /\ UNCHANGED <<old_path, old_db, comparison_rows, cats, app>>

NextReordered == ParseOldReordered \/ ParseNewReordered \/ Compare \/ Categorize

SpecReordered == Init /\ [][NextReordered]_vars

-----------------------------------------------------------------------------
(* DBCCompareApp: the Compare button, its threads, the event loop          *)

\* The most comparisons started.
MaxRuns == 3

\* threading.Thread(target=self._run_compare, ...): a thread at the start of
\* _run_compare
Thread == [at |-> "try", outcome |-> "none"]

Alive(t) == t \in DOMAIN threads /\ threads[t].at # "ended"

\* self._ui_update(func): root.after(0, func)
ui_update(queue, func) == Append(queue, func)

\* A click on Compare: _start_compare.  A disabled button runs no command;
\* with a folder that is no directory the handler shows an error and returns.
start_compare ==
    /\ compare_btn = "normal"
    /\ Len(threads) < MaxRuns
    /\ \E folders_valid \in BOOLEAN :
          IF folders_valid
          THEN /\ is_running' = TRUE
               /\ compare_btn' = "disabled"
               /\ open_btn' = "disabled"
               /\ threads' = Append(threads, Thread)
               /\ UNCHANGED after_queue
          ELSE UNCHANGED app
    /\ UNCHANGED bus

\* _run_compare finds no .dbc file in either folder: it schedules the error
\* dialog and goes on to its own call of _finish.
run_compare_no_files(t) ==
    /\ Alive(t)
    /\ threads[t].at = "try"
    /\ after_queue' = ui_update(after_queue, "showerror")
    /\ threads' = [threads EXCEPT ![t] = [at |-> "finish", outcome |-> "no files"]]
    /\ UNCHANGED <<bus, compare_btn, open_btn, is_running>>

\* _run_compare runs its loop over the buses to the end: it schedules the
\* last update of the progress label and leaves the try block.
run_compare_complete(t) ==
    /\ Alive(t)
    /\ threads[t].at = "try"
    /\ after_queue' = ui_update(after_queue, "progress")
    /\ threads' = [threads EXCEPT ![t] = [at |-> "finally", outcome |-> "complete"]]
    /\ UNCHANGED <<bus, compare_btn, open_btn, is_running>>

\* A thread whose exception handler ends the thread.
run_compare_except_ending(t) ==
    /\ Alive(t)
    /\ threads[t].at = "try"
    /\ after_queue' = ui_update(after_queue, "showerror")
    /\ threads' = [threads EXCEPT ![t] = [at |-> "ended", outcome |-> "exception"]]
    /\ UNCHANGED <<bus, compare_btn, open_btn, is_running>>

\* Parsing, comparing or writing raises: the handler schedules the error
\* dialog and the thread leaves the try block.
run_compare_except(t) ==
    /\ Alive(t)
    /\ threads[t].at = "try"
    /\ after_queue' = ui_update(after_queue, "showerror")
    /\ threads' = [threads EXCEPT ![t] = [at |-> "finally", outcome |-> "exception"]]
    /\ UNCHANGED <<bus, compare_btn, open_btn, is_running>>

\* _finish, first statement: schedule the callback that enables the buttons.
\* It is called before the return of the run without files, and by the
\* finally clause of every run.
finish_schedule(t) ==
    /\ Alive(t)
    /\ threads[t].at \in {"finish", "finally"}
    /\ after_queue' = ui_update(after_queue, "enable")
    /\ threads' = [threads EXCEPT ![t].at =
                      IF @ = "finish" THEN "finish flag" ELSE "finally flag"]
    /\ UNCHANGED <<bus, compare_btn, open_btn, is_running>>

\* _finish, second statement: self.is_running = False.  After the call before
\* the return the finally clause follows; after the one of the finally clause
\* the thread ends.
finish_flag(t) ==
    /\ Alive(t)
    /\ threads[t].at \in {"finish flag", "finally flag"}
    /\ is_running' = FALSE
    /\ threads' = [threads EXCEPT ![t].at =
                      IF @ = "finish flag" THEN "finally" ELSE "ended"]
    /\ UNCHANGED <<bus, compare_btn, open_btn, after_queue>>

\* one statement of thread t
run_compare(t) ==
    \/ run_compare_no_files(t)
    \/ run_compare_complete(t)
    \/ run_compare_except(t)
    \/ finish_schedule(t)
    \/ finish_flag(t)

\* root.mainloop() runs the callback scheduled first.
mainloop ==
    /\ after_queue # <<>>
    /\ after_queue' = Tail(after_queue)
    /\ IF Head(after_queue) = "enable"
       THEN compare_btn' = "normal" /\ open_btn' = "normal"
       ELSE UNCHANGED <<compare_btn, open_btn>>
    /\ UNCHANGED <<bus, is_running, threads>>

NextApp ==
    \/ start_compare
    \/ mainloop
    \/ \E t \in 1..MaxRuns : run_compare_no_files(t)
    \/ \E t \in 1..MaxRuns : run_compare_complete(t)
    \/ \E t \in 1..MaxRuns : run_compare_except(t)
    \/ \E t \in 1..MaxRuns : finish_schedule(t)
    \/ \E t \in 1..MaxRuns : finish_flag(t)

SpecApp == Init /\ [][NextApp]_vars

\* The event loop keeps running scheduled callbacks and every started thread
\* keeps running.
FairSpecApp ==
    /\ SpecApp
    /\ WF_vars(mainloop)
    /\ \A t \in 1..MaxRuns : WF_vars(run_compare(t))

-----------------------------------------------------------------------------
(* Properties                                                              *)

\* The row list and the six lists once main() holds both.
Done == pc = "done"
rows == comparison_rows.v

IdsOf(db) == {db.messages[i].msg_id : i \in DOMAIN db.messages}
IsDatabase(db) == db # Unset /\ ~Raised(db)
WasRead(file) == file # Unset /\ file.readable

\* the lines of shape k in a file's text
LinesOf(file, k) == {i \in DOMAIN file.content : file.content[i].k = k}

\* C1: parse_dbc returns a Database for every readable file, whatever its
\* text: it never raises on text, malformed signal lines included.
ParseNeverRaisesOnText ==
    /\ WasRead(old_path) => old_db # Raise
    /\ WasRead(new_path) => new_db # Raise

\* C2: compare_dbc_files and categorize_changes never fail on two Databases,
\* whatever their field values; two Databases without messages give an empty
\* row list and six empty lists.
DifferNeverFails ==
    /\ comparison_rows # Raise
    /\ cats # Raise
    /\ (Done /\ old_db.messages = <<>> /\ new_db.messages = <<>>) =>
          /\ rows = <<>>
          /\ \A list \in {"new_messages", "removed_messages", "modified_messages",
                          "new_signals", "removed_signals", "modified_signals"} :
                 cats[list] = <<>>

\* C3: the new-messages list of categorize_changes(A, B) is the
\* removed-messages list of categorize_changes(B, A), and the new-signals list
\* of the former is the removed-signals list of the latter, entity for entity
\* in the same order; A and B are the two Databases main() holds, either way
\* round.
DiffSymmetry ==
    Done =>
        LET reverse == categorize_changes(new_db, old_db)
        IN  /\ reverse # Raise
            /\ cats.new_messages = reverse.removed_messages
            /\ cats.new_signals = reverse.removed_signals
            /\ reverse.new_messages = cats.removed_messages
            /\ reverse.new_signals = cats.removed_signals

\* C3 happens: a message with two signals is new and another one is removed.
DiffSymmetryWitness ==
    /\ Done
    /\ \E e \in DOMAIN cats.new_messages : Len(cats.new_messages[e].signals) >= 2
    /\ Len(cats.new_signals) >= 2
    /\ cats.new_signals[1].sig # cats.new_signals[2].sig
    /\ cats.removed_messages # <<>>

\* C4: when both Databases are the same Database, the six lists are empty and
\* every row has has_diff false and no changed column.
SelfDiffIdentity ==
    (Done /\ old_db = new_db) =>
        /\ \A list \in {"new_messages", "removed_messages", "modified_messages",
                        "new_signals", "removed_signals", "modified_signals"} :
               cats[list] = <<>>
        /\ \A r \in DOMAIN rows : ~rows[r].has_diff /\ rows[r].diff_cols = {}

\* C4 happens: a Database of two messages, one with signals, against itself.
SelfDiffWitness ==
    /\ Done
    /\ old_db = new_db
    /\ Len(old_db.messages) >= 2
    /\ \E m \in DOMAIN old_db.messages : old_db.messages[m].signals # <<>>
    /\ Len(rows) >= 2

\* the rows that show message msg_id on a side
RowsOfId(msg_id) ==
    {r \in DOMAIN rows :
        StrV("0x" \o HexStr(msg_id)) \in {rows[r].old_row[1], rows[r].new_row[1]}}

\* the rows that show signal sig of message msg on the given side
RowsOfSignal(side, msg, sig) ==
    {r \in DOMAIN rows :
        /\ rows[r][side][1] = StrV(msg_id_hex(msg))
        /\ rows[r][side][NUM_MSG_COLS + 1] = StrV(display_name(sig))}

InList(list, e) == \E i \in DOMAIN list : list[i] = e

\* The cascade for the messages db holds and other does not.
Cascade(db, other, side, empty_side, msg_list, sig_list) ==
    \A m \in DOMAIN db.messages :
        LET msg == db.messages[m]
        IN  msg.msg_id \notin IdsOf(other) =>
                /\ InList(cats[msg_list], msg)
                /\ \A s \in DOMAIN msg.signals :
                       /\ InList(cats[sig_list], [msg |-> msg, sig |-> msg.signals[s]])
                       /\ Cardinality(RowsOfSignal(side, msg, msg.signals[s])) = 1
                /\ msg.signals # <<>> =>
                       Cardinality(RowsOfId(msg.msg_id)) = Len(msg.signals)
                /\ \A r \in RowsOfId(msg.msg_id) :
                       /\ rows[r].has_diff
                       /\ rows[r].diff_cols = 0..36
                       /\ \A j \in 1..37 : rows[r][empty_side][j] = None

\* C5: a message of old only is in the removed messages, each of its signals
\* is in the removed signals, and the rows hold one row per signal of it, each
\* with has_diff true and all 37 columns changed; a message of new only
\* likewise, in the new lists.
CascadeOnOneSided ==
    Done =>
        /\ Cascade(old_db, new_db, "old_row", "new_row",
                   "removed_messages", "removed_signals")
        /\ Cascade(new_db, old_db, "new_row", "old_row",
                   "new_messages", "new_signals")

\* C5 happens: a message with two signals is in old only, another in new only.
CascadeWitness ==
    /\ Done
    /\ \E m \in DOMAIN old_db.messages :
           /\ old_db.messages[m].msg_id \notin IdsOf(new_db)
           /\ Len(old_db.messages[m].signals) = 2
    /\ \E m \in DOMAIN new_db.messages :
           new_db.messages[m].msg_id \notin IdsOf(old_db)

\* C6: a message without signals on every side that holds it has exactly one
\* row, the 18 signal slots of both sides None; when both sides hold the same
\* such message the row has has_diff false.
ZeroSignalRow ==
    Done =>
        \A msg_id \in IdsOf(old_db) \cup IdsOf(new_db) :
            LET in_old == msg_id \in IdsOf(old_db)
                in_new == msg_id \in IdsOf(new_db)
                old_msg == Get(old_db.messages, "msg_id", msg_id)
                new_msg == Get(new_db.messages, "msg_id", msg_id)
            IN  ((in_old => old_msg.signals = <<>>) /\ (in_new => new_msg.signals = <<>>)) =>
                    /\ Cardinality(RowsOfId(msg_id)) = 1
                    /\ \A r \in RowsOfId(msg_id) :
                           /\ \A j \in 20..37 : /\ rows[r].old_row[j] = None
                                                /\ rows[r].new_row[j] = None
                           /\ (in_old /\ in_new /\ old_msg = new_msg) =>
                                  ~rows[r].has_diff

\* C6 happens: both sides hold the same message without signals, next to a
\* message with a signal.
ZeroSignalWitness ==
    /\ Done
    /\ \E m \in DOMAIN old_db.messages :
           /\ old_db.messages[m].signals = <<>>
           /\ InList(new_db.messages, old_db.messages[m])
    /\ \E m \in DOMAIN old_db.messages : old_db.messages[m].signals # <<>>

\* the message id a row shows (in the Id cell of the side that is not empty)
row_msg_id(row) ==
    LET cell == IF row.old_row[1] # None THEN row.old_row[1] ELSE row.new_row[1]
    IN  CHOOSE msg_id \in IdsOf(old_db) \cup IdsOf(new_db) :
            StrV("0x" \o HexStr(msg_id)) = cell

NonDecreasing(ids) == \A i, j \in DOMAIN ids : i < j => ids[i] <= ids[j]
StrictlyAscending(ids) == \A i, j \in DOMAIN ids : i < j => ids[i] < ids[j]

\* C7: the rows are in non-decreasing message id, the three message lists in
\* strictly ascending message id, the three signal lists in non-decreasing
\* message id, whatever the order of the messages in the Databases.
Ordering ==
    Done =>
        /\ NonDecreasing([r \in DOMAIN rows |-> row_msg_id(rows[r])])
        /\ StrictlyAscending(Keys(cats.new_messages, "msg_id"))
        /\ StrictlyAscending(Keys(cats.removed_messages, "msg_id"))
        /\ StrictlyAscending([e \in DOMAIN cats.modified_messages |->
                                 cats.modified_messages[e].old_msg.msg_id])
        /\ NonDecreasing([e \in DOMAIN cats.new_signals |->
                             cats.new_signals[e].msg.msg_id])
        /\ NonDecreasing([e \in DOMAIN cats.removed_signals |->
                             cats.removed_signals[e].msg.msg_id])
        /\ NonDecreasing([e \in DOMAIN cats.modified_signals |->
                             cats.modified_signals[e].old_msg.msg_id])

\* C7 happens: old declares message 256 before message 10, each with a
\* signal, and both are removed.
OrderingWitness ==
    /\ Done
    /\ Keys(old_db.messages, "msg_id") = <<256, 10>>
    /\ Len(cats.removed_messages) = 2
    /\ Len(cats.removed_signals) = 2
    /\ Len(rows) = 2

\* new's text is old's text and one record more that sets a typed attribute
\* of message 10 or of its signal a to the attribute's default
DefaultMadeExplicit ==
    /\ WasRead(old_path)
    /\ WasRead(new_path)
    /\ \E record \in DefaultRecords :
           new_path.content = Append(old_path.content, record)

\* C8: a document without an attribute record against the same document with
\* the attribute set to its default: no message and no signal is modified and
\* no row has a changed column, for each typed message and signal attribute.
DefaultAbsenceEquivalence ==
    (Done /\ DefaultMadeExplicit) =>
        /\ cats.modified_messages = <<>>
        /\ cats.modified_signals = <<>>
        /\ \A r \in DOMAIN rows : ~rows[r].has_diff /\ rows[r].diff_cols = {}

\* C8 happens: message 10 with its signal a, and new sets the cycle time of
\* the message to 0.
DefaultAbsenceWitness ==
    /\ Done
    /\ WasRead(new_path)
    /\ new_path.content =
           Append(old_path.content, BA_BO("GenMsgCycleTime", "10", "0"))
    /\ HasKey(old_db.messages, "msg_id", 10)
    /\ HasKey(Get(old_db.messages, "msg_id", 10).signals, "name", "a")
    /\ HasKey(parse_msg_int_attr(new_path.content, "GenMsgCycleTime"), "key", 10)

\* C9: a signal of both sides has the Scale column (column 24 of a row, entry
\* 6 of sig_diffs) changed exactly when its two scales differ numerically, in
\* the rows and in the modified signals; and check_row_diff finds a cell
\* holding an int unchanged against the float of the same value, changed
\* against the float half a unit above.
NumericNormalization ==
    Done =>
        /\ \A m \in DOMAIN old_db.messages : \A s \in DOMAIN old_db.messages[m].signals :
               LET old_msg == old_db.messages[m]
                   old_sig == old_msg.signals[s]
                   new_msg == Get(new_db.messages, "msg_id", old_msg.msg_id)
                   new_sig == Get(new_msg.signals, "name", old_sig.name)
                   differ == old_sig.factor.h # new_sig.factor.h
               IN  (/\ HasKey(new_db.messages, "msg_id", old_msg.msg_id)
                    /\ HasKey(new_msg.signals, "name", old_sig.name)) =>
                       /\ RowsOfSignal("old_row", old_msg, old_sig) # {}
                       /\ \A r \in RowsOfSignal("old_row", old_msg, old_sig) :
                              (24 \in rows[r].diff_cols) <=> differ
                       /\ differ <=>
                              \E e \in DOMAIN cats.modified_signals :
                                  LET entry == cats.modified_signals[e]
                                  IN  /\ entry.old_msg = old_msg
                                      /\ entry.old_sig = old_sig
                                      /\ \E d \in DOMAIN entry.sig_diffs :
                                             entry.sig_diffs[d] = 6
        /\ \A r \in DOMAIN rows : \A j \in DOMAIN rows[r].old_row :
               LET old_row == rows[r].old_row
                   whole == [old_row EXCEPT ![j] = FloatV(Fin(2 * old_row[j].i))]
                   above == [old_row EXCEPT ![j] = FloatV(Fin(2 * old_row[j].i + 1))]
               IN  old_row[j].ty = "int" =>
                       /\ j - 1 \notin check_row_diff(whole, old_row).diff_cols
                       /\ j - 1 \in check_row_diff(above, old_row).diff_cols

\* C9 happens: the scale of a signal is written 5 in old and 5.0 in new, and
\* its row shows 5 on both sides.
NumericNormalizationWitness ==
    /\ Done
    /\ \E i \in LinesOf(old_path, "SG") :
           /\ old_path.content[i].scale = "5"
           /\ new_path.content = [old_path.content EXCEPT ![i].scale = "5.0"]
    /\ \E r \in DOMAIN rows :
           /\ rows[r].old_row[25] = IntV(5)
           /\ rows[r].new_row[25] = IntV(5)
           /\ ~rows[r].has_diff

Unique(keys) == \A i, j \in DOMAIN keys : i # j => keys[i] # keys[j]

\* no two messages of db share an id, no two signals of a message a name
UniqueKeys(db) ==
    /\ Unique(Keys(db.messages, "msg_id"))
    /\ \A m \in DOMAIN db.messages : Unique(Keys(db.messages[m].signals, "name"))

\* C12: in a Database parse_dbc returned, no two messages share an id and no
\* two signals of one message share a name, also when the document declares
\* an id or a name more than once (a message is stored under its msg_id).
Uniqueness ==
    /\ IsDatabase(old_db) => UniqueKeys(old_db)
    /\ IsDatabase(new_db) => UniqueKeys(new_db)

\* C12 happens: the old document declares one message id twice and, in one
\* block, one signal name twice.
UniquenessWitness ==
    /\ IsDatabase(old_db)
    /\ \E i, j \in LinesOf(old_path, "BO") :
           i < j /\ old_path.content[i].id = old_path.content[j].id
    /\ \E i \in LinesOf(old_path, "SG") :
           /\ i + 1 \in LinesOf(old_path, "SG")
           /\ old_path.content[i].name = old_path.content[i + 1].name
    /\ old_db.messages # <<>>

RECURSIVE Sum(_)
Sum(numbers) ==
    IF numbers = <<>> THEN 0
    ELSE Sum(SubSeq(numbers, 1, Len(numbers) - 1)) + numbers[Len(numbers)]

\* the signal names of message msg_id in db (none when db lacks the message)
SignalNames(db, msg_id) ==
    IF msg_id \in IdsOf(db)
    THEN LET signals == Get(db.messages, "msg_id", msg_id).signals
         IN  {signals[s].name : s \in DOMAIN signals}
    ELSE {}

UnionNames(msg_id) == SignalNames(old_db, msg_id) \cup SignalNames(new_db, msg_id)

\* the rows that show signal name of message msg_id on either side (a signal
\* without long symbol shows under its name)
RowsOfPair(msg_id, name) ==
    {r \in DOMAIN rows :
        \E side \in {"old_row", "new_row"} :
            /\ rows[r][side][1] = StrV("0x" \o HexStr(msg_id))
            /\ rows[r][side][NUM_MSG_COLS + 1] = StrV(name)}

\* C13: the rows hold exactly one row for every (message id, signal name)
\* pair of either Database and one row for every message id without signal
\* names on both sides, and no other row: their number is the sum over the
\* union of the ids of max(1, number of signal names of the id).
RowCompleteness ==
    Done =>
        LET ids == SortedSeq(IdsOf(old_db) \cup IdsOf(new_db))
            count(msg_id) == IF UnionNames(msg_id) = {} THEN 1
                             ELSE Cardinality(UnionNames(msg_id))
        IN  /\ \A i \in DOMAIN ids : \A name \in UnionNames(ids[i]) :
                   Cardinality(RowsOfPair(ids[i], name)) = 1
            /\ \A i \in DOMAIN ids :
                   UnionNames(ids[i]) = {} => Cardinality(RowsOfId(ids[i])) = 1
            /\ Len(rows) = Sum([i \in DOMAIN ids |-> count(ids[i])])

\* C13 happens: one message without signals, another with a signal of both
\* sides and a signal of new only.
RowCompletenessWitness ==
    /\ Done
    /\ \E msg_id \in IdsOf(old_db) \cup IdsOf(new_db) : UnionNames(msg_id) = {}
    /\ \E msg_id \in IdsOf(old_db) \cap IdsOf(new_db) :
           /\ Cardinality(SignalNames(old_db, msg_id)) = 1
           /\ Cardinality(SignalNames(new_db, msg_id)) = 2
    /\ Len(rows) = 3

NamesOnlyIn(msg, other_msg) ==
    LET names == Keys(msg.signals, "name")
    IN  SeqFilter(names, {i \in DOMAIN names :
                             ~HasKey(other_msg.signals, "name", names[i])})

\* the names of the entries of a signal list that belong to message msg_id
EntryNames(list, msg_field, sig_field, msg_id) ==
    LET own == SeqFilter(list, {e \in DOMAIN list : list[e][msg_field].msg_id = msg_id})
    IN  [e \in DOMAIN own |-> own[e][sig_field].name]

\* the signal names the rows of message msg_id show, in row order
RowNames(msg_id) ==
    LET own == SeqFilter(rows, RowsOfId(msg_id))
    IN  [r \in DOMAIN own |->
            IF own[r].old_row[NUM_MSG_COLS + 1] # None
            THEN own[r].old_row[NUM_MSG_COLS + 1].s
            ELSE own[r].new_row[NUM_MSG_COLS + 1].s]

\* names is a selection of the names of order, in the order of order
InOrderOf(names, order) ==
    \E keep \in SUBSET DOMAIN order : names = SeqFilter(order, keep)

\* C19: for a message of both Databases the rows, and the entries of the
\* three signal lists, come in the order of the old message's signals
\* followed by the new-only signals in the new message's order, each name
\* once.
SignalUnionOrder ==
    Done =>
        \A msg_id \in IdsOf(old_db) \cap IdsOf(new_db) :
            LET old_msg == Get(old_db.messages, "msg_id", msg_id)
                new_msg == Get(new_db.messages, "msg_id", msg_id)
                order == Keys(old_msg.signals, "name") \o NamesOnlyIn(new_msg, old_msg)
            IN  /\ order # <<>> => RowNames(msg_id) = order
                /\ EntryNames(cats.removed_signals, "msg", "sig", msg_id)
                       = NamesOnlyIn(old_msg, new_msg)
                /\ EntryNames(cats.new_signals, "msg", "sig", msg_id)
                       = NamesOnlyIn(new_msg, old_msg)
                /\ InOrderOf(EntryNames(cats.modified_signals, "old_msg", "old_sig", msg_id),
                             order)

\* C19 happens: a message holds signals a, b in old and b, a in new.
SignalUnionOrderWitness ==
    /\ Done
    /\ \E msg_id \in IdsOf(old_db) \cap IdsOf(new_db) :
           /\ Keys(Get(old_db.messages, "msg_id", msg_id).signals, "name") = <<"a", "b">>
           /\ Keys(Get(new_db.messages, "msg_id", msg_id).signals, "name") = <<"b", "a">>
           /\ RowNames(msg_id) = <<"a", "b">>

\* new's text is old's text and one line of the given set more, at its end
Appended(lines) ==
    /\ WasRead(old_path)
    /\ WasRead(new_path)
    /\ \E line \in lines : new_path.content = Append(old_path.content, line)

\* C11: an attribute, comment or value-table record that names an undeclared
\* message id, or a signal name its message does not declare, leaves the
\* Database as it is without the record: no entity more, no field changed.
DanglingDropped ==
    (IsDatabase(old_db) /\ Appended(DanglingRecords)) => new_db = old_db

\* C11 happens: a value table for signal b of message 10 is dropped after a
\* record that did set a field.
DanglingDroppedWitness ==
    /\ IsDatabase(new_db)
    /\ Appended({VAL("10", "b", <<[num |-> "0", label |-> "Off"]>>)})
    /\ old_path.content = Append(BaseDoc, CM_SG("10", "a", "t1"))
    /\ Get(Get(new_db.messages, "msg_id", 10).signals, "name", "a").comment = "t1"

\* the message-level fields of a Message, the fields of a Signal
MSG_FIELDS == DOMAIN Message \ {"msg_id", "signals"}
SIG_FIELDS == DOMAIN Signal \ {"name", "long_symbol"}

Differing(fields, old_entity, new_entity) ==
    {f \in fields : old_entity[f] # new_entity[f]}

\* C14: a message id of both Databases is in the modified messages exactly
\* when one of its message-level fields differs between old and new, and
\* then with a non-empty index list.
ModifiedMessageRule ==
    Done =>
        \A msg_id \in IdsOf(old_db) \cap IdsOf(new_db) :
            LET old_msg == Get(old_db.messages, "msg_id", msg_id)
                new_msg == Get(new_db.messages, "msg_id", msg_id)
                entries == {e \in DOMAIN cats.modified_messages :
                               cats.modified_messages[e].old_msg.msg_id = msg_id}
            IN  /\ (Differing(MSG_FIELDS, old_msg, new_msg) # {}) <=> (entries # {})
                /\ \A e \in entries : cats.modified_messages[e].msg_diffs # <<>>

\* C15: in a message of both Databases a signal name of old only is in the
\* removed signals, one of new only in the new signals, and one of both is
\* in the modified signals exactly when one of its fields differs; it is in
\* no other list.
SignalClassificationRule ==
    Done =>
        \A msg_id \in IdsOf(old_db) \cap IdsOf(new_db) : \A name \in UnionNames(msg_id) :
            LET old_msg == Get(old_db.messages, "msg_id", msg_id)
                new_msg == Get(new_db.messages, "msg_id", msg_id)
                in_old == HasKey(old_msg.signals, "name", name)
                in_new == HasKey(new_msg.signals, "name", name)
                old_sig == Get(old_msg.signals, "name", name)
                new_sig == Get(new_msg.signals, "name", name)
                removed == \E e \in DOMAIN cats.removed_signals :
                               /\ cats.removed_signals[e].msg.msg_id = msg_id
                               /\ cats.removed_signals[e].sig.name = name
                added == \E e \in DOMAIN cats.new_signals :
                             /\ cats.new_signals[e].msg.msg_id = msg_id
                             /\ cats.new_signals[e].sig.name = name
                modified == \E e \in DOMAIN cats.modified_signals :
                                /\ cats.modified_signals[e].old_msg.msg_id = msg_id
                                /\ cats.modified_signals[e].old_sig.name = name
                                /\ cats.modified_signals[e].sig_diffs # <<>>
            IN  /\ removed <=> (in_old /\ ~in_new)
                /\ added <=> (in_new /\ ~in_old)
                /\ modified <=> (/\ in_old
                                 /\ in_new
                                 /\ Differing(SIG_FIELDS, old_sig, new_sig) # {})

\* C18: in a row of a message and a signal of both sides, a column is in the
\* changed columns exactly when the stored field it shows differs between
\* old and new (floats compare by value; a Name column shows the name and the
\* long symbol); different enum indices and different names are changed.
FieldComparisonRule ==
    Done =>
        \A msg_id \in IdsOf(old_db) \cap IdsOf(new_db) :
            \A name \in SignalNames(old_db, msg_id) \cap SignalNames(new_db, msg_id) :
                LET old == [msg |-> Get(old_db.messages, "msg_id", msg_id),
                            sig |-> Get(Get(old_db.messages, "msg_id", msg_id).signals,
                                        "name", name)]
                    new == [msg |-> Get(new_db.messages, "msg_id", msg_id),
                            sig |-> Get(Get(new_db.messages, "msg_id", msg_id).signals,
                                        "name", name)]
                    shown(c) == IF ROW_FIELDS[c][2] = "name"
                                THEN {"name", "long_symbol"}
                                ELSE {ROW_FIELDS[c][2]}
                IN  \A r \in RowsOfSignal("old_row", old.msg, old.sig) :
                        \A c \in DOMAIN ROW_FIELDS :
                            (c - 1 \in rows[r].diff_cols) <=>
                                Differing(shown(c), old[ROW_FIELDS[c][1]],
                                          new[ROW_FIELDS[c][1]]) # {}

\* new's text is old's text and one malformed line more, before it or at its
\* end
MalformedAdded ==
    /\ WasRead(old_path)
    /\ WasRead(new_path)
    /\ \E line \in MalformedLines :
          \/ new_path.content = Append(old_path.content, line)
          \/ new_path.content = <<line>> \o old_path.content

\* C17: a line that matches no shape, or a signal line whose scale is no
\* number, is skipped alone: parse_dbc returns the Database of the document
\* without that line, every message and signal with the same owner and fields.
LocalRecovery ==
    (IsDatabase(old_db) /\ MalformedAdded /\ new_db # Unset) => new_db = old_db

\* the key a record writes under: the attribute name; the message id and
\* the attribute; the message id, the signal name and the attribute
KeyOf(record) ==
    CASE record.k = "BA_GLOBAL" -> <<record.attr>>
      [] record.k \in {"BA_BO", "BA_BO_STR"} -> <<record.id, record.attr>>
      [] record.k = "CM_BO" -> <<record.id, "comment">>
      [] record.k \in {"BA_SG", "BA_SG_STR"} -> <<record.id, record.sig, record.attr>>
      [] record.k = "VAL" -> <<record.id, record.sig, "value table">>
      [] record.k = "CM_SG" -> <<record.id, record.sig, "comment">>

KeyedRecords == MsgRecords \cup SigRecords \cup GlobalRecords

\* C20: of two records for the same key the later one is stored: the Database
\* of a document that ends with a record is the one of the document without
\* the earlier records of that key.
LastWriteWins ==
    (WasRead(new_path) /\ IsDatabase(new_db)) =>
        LET content == new_path.content
            last == content[Len(content)]
            Overwritten(line) == /\ line \in KeyedRecords
                                 /\ KeyOf(line) = KeyOf(last)
            earlier == SubSeq(content, 1, Len(content) - 1)
        IN  last \in KeyedRecords =>
                new_db = parse_content(
                             SeqFilter(earlier, {i \in DOMAIN earlier :
                                                    ~Overwritten(earlier[i])})
                                 \o <<last>>)

\* the lines a record passes when line i of the document becomes line j
Passed(doc, i, j) ==
    {m \in DOMAIN doc : (j <= m /\ m < i) \/ (i < m /\ m <= j)}

\* new's text is old's text with one record moved, past no record of its key
RecordMoved ==
    /\ WasRead(old_path)
    /\ WasRead(new_path)
    /\ \E i \in DOMAIN old_path.content, j \in DOMAIN old_path.content :
          LET doc == old_path.content
          IN  /\ doc[i] \in MovableRecords
              /\ new_path.content = Move(doc, i, j)
              /\ \A m \in Passed(doc, i, j) :
                    doc[m] \in MovableRecords => KeyOf(doc[m]) # KeyOf(doc[i])

\* C21: an attribute, comment or value-table record moved to another line,
\* past no record of the same key, gives an equal Database.
RecordOrderIndependence ==
    (IsDatabase(old_db) /\ RecordMoved /\ new_db # Unset) => new_db = old_db

\* the default documented for an integer attribute
DocumentedDefault(attr) ==
    CASE attr = "GenMsgILSupport" -> 1
      [] attr = "VFrameFormat" -> 14
      [] attr = "CANFD_BRS" -> 1
      [] OTHER -> 0

IsFloat(x) == x.cls \in {"fin", "nan", "inf"}

\* the text holds a record of shape k for the attribute and the owner
Names(content, k, attr, id, sig) ==
    \E n \in DOMAIN content :
        /\ content[n].k = k
        /\ (k \in {"BA_BO", "BA_BO_STR", "BA_SG", "BA_SG_STR"} => content[n].attr = attr)
        /\ py_int(content[n].id) = id
        /\ (k \in {"BA_SG", "BA_SG_STR", "VAL", "CM_SG"} => content[n].sig = sig)

\* every field of the signal holds a value of its type, and the default
\* where the text holds no record for it
SignalDefaulted(content, id, sig) ==
    /\ sig.name \in STRING /\ sig.unit \in STRING /\ sig.value_type \in STRING
    /\ sig.start_bit \in Int /\ sig.length \in Int /\ sig.byte_order \in Int
    /\ IsFloat(sig.factor) /\ IsFloat(sig.offset)
    /\ IsFloat(sig.minimum) /\ IsFloat(sig.maximum)
    /\ \A r \in DOMAIN sig.receivers : sig.receivers[r] \in STRING
    /\ \A n \in DOMAIN SIG_INT_ATTRS :
          LET attr == SIG_INT_ATTRS[n][1]
              field == SIG_INT_ATTRS[n][2]
          IN  /\ sig[field] \in Int
              /\ ~Names(content, "BA_SG", attr, id, sig.name)
                    => sig[field] = DocumentedDefault(attr)
    /\ \A n \in DOMAIN SIG_STR_ATTRS :
          LET attr == SIG_STR_ATTRS[n][1]
              field == SIG_STR_ATTRS[n][2]
          IN  /\ sig[field] \in STRING
              /\ ~Names(content, "BA_SG_STR", attr, id, sig.name) => sig[field] = ""
    /\ sig.value_desc \in STRING
    /\ ~Names(content, "VAL", "", id, sig.name) => sig.value_desc = ""
    /\ sig.comment \in STRING
    /\ ~Names(content, "CM_SG", "", id, sig.name) => sig.comment = ""

MessageDefaulted(content, msg) ==
    /\ msg.msg_id \in Int /\ msg.dlc \in Int
    /\ msg.name \in STRING /\ msg.transmitter \in STRING
    /\ \A n \in DOMAIN MSG_INT_ATTRS :
          LET attr == MSG_INT_ATTRS[n][1]
              field == MSG_INT_ATTRS[n][2]
          IN  /\ msg[field] \in Int
              /\ ~Names(content, "BA_BO", attr, msg.msg_id, "")
                    => msg[field] = DocumentedDefault(attr)
    /\ msg.long_symbol \in STRING
    /\ ~Names(content, "BA_BO_STR", "SystemMessageLongSymbol", msg.msg_id, "")
          => msg.long_symbol = ""
    /\ msg.comment \in STRING
    /\ ~Names(content, "CM_BO", "", msg.msg_id, "") => msg.comment = ""
    /\ \A s \in DOMAIN msg.signals : SignalDefaulted(content, msg.msg_id, msg.signals[s])

Defaulted(file, db) ==
    IsDatabase(db) =>
        \A m \in DOMAIN db.messages : MessageDefaulted(file.content, db.messages[m])

\* C22: in a Database parse_dbc returned every typed field of every Message
\* and Signal holds a value of its type, never null, and an attribute no
\* record of the text sets holds its default: 0, but 1 for IL support, 14 for
\* the frame format and 1 for bit-rate switch; the empty string; scale 1.0
\* in a Signal before its line is read.
DefaultsNeverNull ==
    /\ Defaulted(old_path, old_db)
    /\ Defaulted(new_path, new_db)
    /\ Signal.factor = Fin(2)

\* C22 happens: a record set the cycle time of message 10 and the start value
\* of its signal a, and message 256 and signal b hold the defaults.
DefaultsNeverNullWitness ==
    /\ IsDatabase(new_db)
    /\ Get(new_db.messages, "msg_id", 10).cycle_time = 2
    /\ Get(Get(new_db.messages, "msg_id", 10).signals, "name", "a").start_value = 3
    /\ Get(new_db.messages, "msg_id", 256).cycle_time = 0
    /\ Get(new_db.messages, "msg_id", 256).il_support = 1
    /\ Get(Get(new_db.messages, "msg_id", 256).signals, "name", "b").start_value = 0

\* the lines of the text that are a record of shape k for the attribute and
\* the owner
RecordsFor(content, k, attr, id, sig) ==
    {n \in DOMAIN content :
        /\ content[n].k = k
        /\ content[n].attr = attr
        /\ py_int(content[n].id) = id
        /\ (k = "BA_SG" => content[n].sig = sig)}

Last(S) == CHOOSE n \in S : \A m \in S : m <= n

\* the enum-valued columns of a row: the entity and field shown, the shape
\* and attribute of its records, the table and the fallback label
ENUM_COLUMNS ==
    << <<"msg", "send_type", "BA_BO", "GenMsgSendType", MSG_SEND_TYPE_ENUM, "Cyclic">>,
       <<"msg", "vframe_format", "BA_BO", "VFrameFormat", VFRAME_FORMAT_ENUM, "StandardCAN_FD">>,
       <<"msg", "canfd_brs", "BA_BO", "CANFD_BRS", CANFD_BRS_ENUM, "1">>,
       <<"msg", "il_support", "BA_BO", "GenMsgILSupport", IL_ENUM, "Yes">>,
       <<"msg", "nm_message", "BA_BO", "NmMessage", NM_ENUM, "No">>,
       <<"msg", "diag_request", "BA_BO", "DiagRequest", DIAG_ENUM, "No">>,
       <<"msg", "diag_response", "BA_BO", "DiagResponse", DIAG_ENUM, "No">>,
       <<"msg", "diag_state", "BA_BO", "DiagState", DIAG_ENUM, "No">>,
       <<"sig", "send_type", "BA_SG", "GenSigSendType", SIG_SEND_TYPE_ENUM, "Cyclic">> >>

ColumnOf(entity, field) ==
    CHOOSE c \in DOMAIN ROW_FIELDS : ROW_FIELDS[c] = <<entity, field>>

\* On one side: every enum-valued field holds the index its last record
\* wrote, and the row shows its label or the fallback.
EnumShown(file, db, side) ==
    \A m \in DOMAIN db.messages : \A s \in DOMAIN db.messages[m].signals :
        LET shown == [msg |-> db.messages[m], sig |-> db.messages[m].signals[s]]
        IN  \A e \in DOMAIN ENUM_COLUMNS :
                LET col == ENUM_COLUMNS[e]
                    index == shown[col[1]][col[2]]
                    written == RecordsFor(file.content, col[3], col[4],
                                          shown.msg.msg_id, shown.sig.name)
                    label == IF 0 <= index /\ index < Len(col[5])
                             THEN col[5][index + 1]
                             ELSE col[6]
                IN  /\ written # {} =>
                          index = py_int(file.content[Last(written)].val)
                    /\ \A r \in RowsOfSignal(side, shown.msg, shown.sig) :
                          rows[r][side][ColumnOf(col[1], col[2])] = StrV(label)

\* C23: an enum-valued field stores the index as the record wrote it,
\* negative or beyond the table included; a row shows the table's label for
\* an index inside the table and the field's fallback label for an index
\* below 0 or at or beyond the table's length.
EnumByIndex ==
    Done => /\ EnumShown(old_path, old_db, "old_row")
            /\ EnumShown(new_path, new_db, "new_row")

\* C23 happens: message 10 has send type 2 in old and -1 in new; the row
\* shows the label of 2 and the fallback.
EnumByIndexWitness ==
    /\ Done
    /\ Get(old_db.messages, "msg_id", 10).send_type = 2
    /\ Get(new_db.messages, "msg_id", 10).send_type = 0 - 1
    /\ \E r \in DOMAIN rows :
          /\ rows[r].old_row[3] = StrV("NotUsed")
          /\ rows[r].new_row[3] = StrV("Cyclic")
          /\ rows[r].new_row[1] = StrV("0xA")

\* C24: while a comparison thread runs the Compare button is disabled, and
\* at most one comparison thread runs at a time.
OneComparisonAtATime ==
    LET running == {t \in DOMAIN threads : Alive(t)}
    IN  /\ running # {} => compare_btn = "disabled"
        /\ Cardinality(running) <= 1

\* where a started comparison has to end
Ended(t) ==
    /\ t \in DOMAIN threads
    /\ threads[t].at = "ended"
    /\ compare_btn = "normal"
    /\ open_btn = "normal"
    /\ is_running = FALSE

\* C25: every started comparison eventually has ended with both buttons
\* enabled and is_running false, whether it ran to the end, found no file or
\* raised, when the event loop and the threads keep running.
EveryRunEnds ==
    \A t \in 1..MaxRuns : (t \in DOMAIN threads) ~> Ended(t)

\* C25 happens: a comparison that raised, one that found no file and one that
\* ran to the end have all ended, the buttons enabled.
EveryRunEndsWitness ==
    /\ \A t \in DOMAIN threads : Ended(t)
    /\ {threads[t].outcome : t \in DOMAIN threads} = {"exception", "no files", "complete"}
    /\ after_queue = <<>>

\* C26: a message id of both Databases is in the modified messages exactly
\* when a row of the message has a changed message column (index below 19),
\* and a signal of both sides is in the modified signals exactly when its
\* row has a changed signal column (index 19 or above).
ViewsAgree ==
    Done =>
        \A msg_id \in IdsOf(old_db) \cap IdsOf(new_db) :
            LET old_msg == Get(old_db.messages, "msg_id", msg_id)
                new_msg == Get(new_db.messages, "msg_id", msg_id)
            IN  /\ (\E e \in DOMAIN cats.modified_messages :
                        cats.modified_messages[e].old_msg.msg_id = msg_id)
                    <=> (\E r \in RowsOfId(msg_id) :
                            \E c \in rows[r].diff_cols : c < NUM_MSG_COLS)
                /\ \A name \in SignalNames(old_db, msg_id) \cap SignalNames(new_db, msg_id) :
                      LET old_sig == Get(old_msg.signals, "name", name)
                      IN  (\E e \in DOMAIN cats.modified_signals :
                              /\ cats.modified_signals[e].old_msg.msg_id = msg_id
                              /\ cats.modified_signals[e].old_sig.name = name)
                          <=> (\E r \in RowsOfSignal("old_row", old_msg, old_sig) :
                                  \E c \in rows[r].diff_cols : c >= NUM_MSG_COLS)

\* The row of a signal that only the side `side` of a message of both sides
\* holds: the other side shows its own message with 18 empty signal slots,
\* and the changed columns are the message columns whose cells differ and
\* the signal columns the signal fills, its Name among them.
OneSidedSignalRow(side, other, msg, other_msg, sig) ==
    LET found == RowsOfSignal(side, msg, sig)
    IN  /\ Cardinality(found) = 1
        /\ \A r \in found :
              /\ rows[r][other][1] = StrV(msg_id_hex(other_msg))
              /\ rows[r][other][2] = StrV(display_name(other_msg))
              /\ rows[r][other][4] = IntV(other_msg.cycle_time)
              /\ rows[r][other][10] = IntV(other_msg.dlc)
              /\ rows[r][other][13] = StrV(other_msg.transmitter)
              /\ \A c \in (NUM_MSG_COLS + 1)..NUM_COLS_PER_SIDE : rows[r][other][c] = None
              /\ rows[r].has_diff
              /\ NUM_MSG_COLS \in rows[r].diff_cols
              /\ rows[r].diff_cols =
                    {c - 1 : c \in {b \in 1..NUM_MSG_COLS :
                                       rows[r][side][b] # rows[r][other][b]}}
                    \cup {c - 1 : c \in {b \in (NUM_MSG_COLS + 1)..NUM_COLS_PER_SIDE :
                                            rows[r][side][b] # None}}

\* C27: for a message of both Databases and a signal of one side only, the
\* row's other side carries that side's message fields and 18 empty signal
\* slots, has_diff is true, and the changed columns are the signal Name
\* column and exactly the columns whose cells differ, not all 37 by force.
OneSidedSignal ==
    Done =>
        \A msg_id \in IdsOf(old_db) \cap IdsOf(new_db) :
            LET old_msg == Get(old_db.messages, "msg_id", msg_id)
                new_msg == Get(new_db.messages, "msg_id", msg_id)
            IN  /\ \A name \in SignalNames(old_db, msg_id) \ SignalNames(new_db, msg_id) :
                      OneSidedSignalRow("old_row", "new_row", old_msg, new_msg,
                                        Get(old_msg.signals, "name", name))
                /\ \A name \in SignalNames(new_db, msg_id) \ SignalNames(old_db, msg_id) :
                      OneSidedSignalRow("new_row", "old_row", new_msg, old_msg,
                                        Get(new_msg.signals, "name", name))

\* C27 happens: message 10 is on both sides with another length, signal a in
\* old only; the row marks the length and the filled signal columns, and
\* leaves the others.
OneSidedSignalWitness ==
    /\ Done
    /\ {10} \subseteq IdsOf(old_db) \cap IdsOf(new_db)
    /\ "a" \in SignalNames(old_db, 10) \ SignalNames(new_db, 10)
    /\ Get(old_db.messages, "msg_id", 10).dlc # Get(new_db.messages, "msg_id", 10).dlc
    /\ \E r \in DOMAIN rows :
          /\ rows[r].old_row[NUM_MSG_COLS + 1] = StrV("a")
          /\ rows[r].new_row[NUM_MSG_COLS + 1] = None
          /\ {9, NUM_MSG_COLS} \subseteq rows[r].diff_cols
          /\ 0 \notin rows[r].diff_cols
          /\ NUM_MSG_COLS + 9 \notin rows[r].diff_cols


\* the (message id, signal name) pairs of a Database
PairsOf(db) ==
    UNION {{<<db.messages[m].msg_id, db.messages[m].signals[s].name>> :
                s \in DOMAIN db.messages[m].signals} : m \in DOMAIN db.messages}

\* the entries of a one-sided signal list that name message msg_id
EntriesOf(list, msg_id) == {e \in DOMAIN list : list[e].msg.msg_id = msg_id}

\* A message of a one-sided message list has all and only its own signals
\* in the matching signal list.
OwnSignals(msg_list, sig_list) ==
    \A m \in DOMAIN msg_list :
        LET msg == msg_list[m]
            own == EntriesOf(sig_list, msg.msg_id)
        IN  /\ {sig_list[e].sig : e \in own} = {msg.signals[s] : s \in DOMAIN msg.signals}
            /\ Cardinality(own) = Len(msg.signals)

\* C28: in the result of categorize_changes, every message id of the union
\* is in at most one of the new, removed and modified message lists; every
\* (message id, signal name) pair is in at most one of the three signal
\* lists; every message in new or removed has all and only its own signals
\* in the matching signal list; and the removed (resp. new) signal count
\* plus the count of the signals common to both sides is the signal count
\* of old (resp. new).
ClassificationPartition ==
    Done =>
        LET one_sided_ids(list) == [e \in DOMAIN list |-> list[e].msg_id]
            one_sided_pairs(list) ==
                [e \in DOMAIN list |-> <<list[e].msg.msg_id, list[e].sig.name>>]
            msg_ids == one_sided_ids(cats.new_messages)
                       \o one_sided_ids(cats.removed_messages)
                       \o [e \in DOMAIN cats.modified_messages |->
                              cats.modified_messages[e].old_msg.msg_id]
            sig_pairs == one_sided_pairs(cats.new_signals)
                         \o one_sided_pairs(cats.removed_signals)
                         \o [e \in DOMAIN cats.modified_signals |->
                                <<cats.modified_signals[e].old_msg.msg_id,
                                  cats.modified_signals[e].old_sig.name>>]
            common == Cardinality(PairsOf(old_db) \cap PairsOf(new_db))
        IN  /\ Unique(msg_ids)
            /\ \A e \in DOMAIN msg_ids : msg_ids[e] \in IdsOf(old_db) \cup IdsOf(new_db)
            /\ Unique(sig_pairs)
            /\ \A e \in DOMAIN sig_pairs :
                   sig_pairs[e] \in PairsOf(old_db) \cup PairsOf(new_db)
            /\ OwnSignals(cats.new_messages, cats.new_signals)
            /\ OwnSignals(cats.removed_messages, cats.removed_signals)
            /\ Len(cats.removed_signals) + common = Cardinality(PairsOf(old_db))
            /\ Len(cats.new_signals) + common = Cardinality(PairsOf(new_db))

\* C28 happens: one message with two signals is removed and another message
\* with two signals is new.
ClassificationPartitionWitness ==
    /\ Done
    /\ Len(cats.removed_messages) = 1
    /\ Len(cats.new_messages) = 1
    /\ Len(cats.removed_signals) = 2
    /\ Len(cats.new_signals) = 2


\* C29: every row compare_dbc_files returns has an old and a new side of
\* exactly 37 columns and a changed-column set within 0..36; has_diff is
\* true exactly when that set is non-empty; no row has both sides completely
\* empty.
RowShape ==
    comparison_rows.ty = "ok" =>
        \A r \in DOMAIN rows :
            /\ Len(rows[r].old_row) = 37
            /\ Len(rows[r].new_row) = 37
            /\ rows[r].diff_cols \subseteq 0..36
            /\ rows[r].has_diff <=> rows[r].diff_cols # {}
            /\ \E side \in {"old_row", "new_row"} :
                   \E c \in 1..37 : rows[r][side][c] # None

\* C29 happens: the rows hold a row without a changed column, a row with
\* some changed columns, and a row with one side completely empty.
RowShapeWitness ==
    /\ comparison_rows.ty = "ok"
    /\ \E r \in DOMAIN rows : ~rows[r].has_diff
    /\ \E r \in DOMAIN rows :
           rows[r].diff_cols # {} /\ rows[r].diff_cols # 0..36
    /\ \E r \in DOMAIN rows : \A c \in 1..37 : rows[r].new_row[c] = None


\* What the Database of a file holds for the message ids its text declares,
\* every signal line of the text naming a receiver: the ids in the order of
\* their first declarations; for each id the name, length and transmitter of
\* its last declaration; as signals the names of that declaration's block in
\* the order of their first lines, each with the scale and the receivers of
\* its last line in the block.
LastDeclaration(file, db) ==
    LET content == file.content
        declarations == SortedSeq(LinesOf(file, "BO"))
        id(i) == py_int(content[i].id)
        block(i) == {j \in LinesOf(file, "SG") :
                        j > i /\ \A b \in LinesOf(file, "BO") : b > i => j < b}
    IN  /\ Keys(db.messages, "msg_id")
               = Dedup([d \in DOMAIN declarations |-> id(declarations[d])])
        /\ \A i \in LinesOf(file, "BO") :
               (\A j \in LinesOf(file, "BO") : id(j) = id(i) => j <= i) =>
                   LET msg == Get(db.messages, "msg_id", id(i))
                       lines == SortedSeq(block(i))
                   IN  /\ msg.name = content[i].name
                       /\ msg.dlc = py_int(content[i].dlc)
                       /\ msg.transmitter = content[i].tx
                       /\ Keys(msg.signals, "name")
                              = Dedup([l \in DOMAIN lines |-> content[lines[l]].name])
                       /\ \A l \in block(i) :
                              (\A k \in block(i) :
                                   content[k].name = content[l].name => k <= l) =>
                                  LET sig == Get(msg.signals, "name", content[l].name)
                                  IN  /\ sig.factor = py_float(content[l].scale)
                                      /\ sig.receivers =
                                             SeqFilter(content[l].recv,
                                                       {r \in DOMAIN content[l].recv :
                                                           content[l].recv[r] # ""})

\* C30: when a document declares a message id twice, the Database holds one
\* message for the id, with the name, length and transmitter of the later
\* declaration and only the signals of the later declaration's block, at
\* the map position of the first declaration; a signal name repeated in one
\* block keeps the later line's values at the first line's position.
DuplicateDeclaration ==
    /\ IsDatabase(old_db) => LastDeclaration(old_path, old_db)
    /\ IsDatabase(new_db) => LastDeclaration(new_path, new_db)

\* C30 happens: the old file declares message 10, then 256, then 10 again
\* under another name with signal a on two lines; the Database holds 10
\* before 256, under the later name, without signal c of the first block,
\* and signal a before b with the scale of its second line.
DuplicateDeclarationWitness ==
    /\ IsDatabase(old_db)
    /\ old_path.content = DuplicateDoc
    /\ Keys(old_db.messages, "msg_id") = <<10, 256>>
    /\ old_db.messages[1].name = "MsgC"
    /\ old_db.messages[1].dlc = 4
    /\ Keys(old_db.messages[1].signals, "name") = <<"a", "b">>
    /\ old_db.messages[1].signals[1].factor = py_float("5.5")
    /\ old_db.messages[1].signals[1].receivers = <<"ECU3">>

=============================================================================
